---- MODULE Spec2Model ----
(***************************************************************************)
(* Model of the source translator: the Java scanner/rewriter               *)
(* (java_translator.py), the string translator with its cache              *)
(* (core/string_translator.py, string_translator.py), the file router      *)
(* (core/file_router.py), the worker pool of translate_project.py and the  *)
(* structural QA skeleton (qa_report.py).                                  *)
(*                                                                         *)
(* Text is a sequence of one-character strings.                            *)
(***************************************************************************)
EXTENDS Integers, Sequences, FiniteSets, TLC

\* ------------------------------------------------------------------ bounds

\* Longest text of the exhaustive text set given to JavaTranslator.translate.
MaxLen == 4

\* ------------------------------------------------------------- characters

DQ == "\""
SQ == "'"
BS == "\\"
NL == "\n"
SL == "/"
ST == "*"

\* The characters texts are built from: every delimiter the scanner reads,
\* and one letter.
Chars == {DQ, SQ, BS, NL, SL, ST, "a"}

\* str.strip() / str.split() whitespace.
Whitespace == {" ", "\n", "\t", "\r"}

RECURSIVE SeqsUpTo(_, _)
SeqsUpTo(S, n) ==
    IF n = 0 THEN {<<>>}
    ELSE LET shorter == SeqsUpTo(S, n - 1)
         IN  shorter \cup {Append(s, c) : s \in {x \in shorter : Len(x) = n - 1}, c \in S}

\* ------------------------------------------------------ pure string helpers

RECURSIVE LStrip(_)
LStrip(s) == IF s # <<>> /\ Head(s) \in Whitespace THEN LStrip(Tail(s)) ELSE s

RECURSIVE RStrip(_)
RStrip(s) ==
    IF s # <<>> /\ s[Len(s)] \in Whitespace THEN RStrip(SubSeq(s, 1, Len(s) - 1)) ELSE s

\* str.strip()
Strip(s) == RStrip(LStrip(s))

\* len(s.split()): the number of maximal runs of non-whitespace characters.
RECURSIVE WordCount(_)
WordCount(s) ==
    IF s = <<>> THEN 0
    ELSE (IF Head(s) \notin Whitespace /\ (Len(s) = 1 \/ s[2] \in Whitespace) THEN 1 ELSE 0)
         + WordCount(Tail(s))

\* _call_llm's post-processing of the backend's text: strip, then drop one
\* outer pair of double or single quotes and strip again.
StripQuotes(r) ==
    LET t == Strip(r) IN
    IF t # <<>> /\ ((t[1] = DQ /\ t[Len(t)] = DQ) \/ (t[1] = SQ /\ t[Len(t)] = SQ))
    THEN Strip(SubSeq(t, 2, Len(t) - 1))
    ELSE t

\* _is_escaped(source, idx): the number of consecutive backslashes directly
\* before source[idx] is odd.
RECURSIVE BackslashesBefore(_, _)
BackslashesBefore(source, idx) ==
    IF idx - 1 >= 1 /\ source[idx - 1] = BS
    THEN 1 + BackslashesBefore(source, idx - 1)
    ELSE 0

IsEscaped(source, idx) == (BackslashesBefore(source, idx) % 2) = 1

\* ------------------------------------------------------------------- state

VARIABLES
    \* --- per worker thread (functions over the worker set) ---
    pc,         \* where the worker is in route_and_process_file / translate
    cur,        \* the file (rel_path) the worker is processing, 0 when none
    text,       \* translate's argument: the text read from the source file
    i,          \* translate: read position (1-based)
    mode,       \* translate: NORMAL | STRING | CHAR | LINE_COMMENT | BLOCK_COMMENT
    result,     \* translate: the output built so far
    buf,        \* translate: content of the string/comment being read
    resp,       \* _call_llm: the text the backend returned
    todo,       \* the `x += d` / errors.append statements the worker has yet to run
    after,      \* pc to continue at once todo is empty
    tmp,        \* the value loaded by the `+=` in progress
    \* --- shared by the run ---
    cache,      \* StringTranslator._cache
    glossary,   \* lines appended to the glossary file
    stats,      \* Stats
    queue,      \* files the pool has not yet handed to a worker
    src,        \* source tree: file -> [text, ext]
    dst,        \* output tree: file -> [exists, text, whole]; whole is history:
                \* the text was left by a write that completed
    dirs,       \* files whose destination parent directory exists
    main,       \* the dispatcher: "running" | "raised" | "done"
    answers,    \* the backend: the texts it may answer a request with
    \* --- history (not read by the program) ---
    open,       \* per worker: index in text of the first character after the
                \* opening delimiter of the construct being read
    spans,      \* per file: one record per string/comment span the scan ended
    charPos,    \* per file: <<input index, output index>> of every character
                \* copied in CHAR mode
    issued,     \* backend calls issued, per request string
    flog,       \* per file: what route_and_process_file did with it
    \* --- mask_placeholders / unmask_placeholders called on their own ---
    mphase,     \* "text" | "masked" | "unmasked"
    mtext,      \* the text given to mask_placeholders
    masked,     \* mask_placeholders' first result
    mapping,    \* its second: the dict, as the sequence of its (key, original) items
    unmasked,   \* unmask_placeholders(masked, mapping)
    \* --- StringTranslator.translate_string called on its own ---
    variant,    \* "core" (core/string_translator.py) | "root" (string_translator.py)
    client,     \* "llama" (LlamaCppClient) | "ollama" (OllamaClient)
    sphase,     \* "idle" | "llm" (the backend call is in flight)
    sarg,       \* the argument s of the call in progress
    sreq,       \* the text placed in the backend request
    smap,       \* the placeholder mapping of the call in progress
    scache,     \* _cache
    sstats,     \* Stats
    sglossary,  \* lines appended to the glossary file
    slog,       \* history: one record per translate_string call that ended
    \* --- runs of the program on the same output tree ---
    run,        \* the number of the run of main in progress
    prev,       \* history: the output tree when the run started
    ended,      \* history: how the run before ended, "none" in the first
    gate,       \* the QA gate in this run: "not_run" | "pass" | "fail"
    \* --- qa_plain_string / qa_code_java called on their own ---
    qphase,     \* "input" | "done"
    qkind,      \* "plain" (qa_plain_string) | "java" (qa_code_java)
    qorig,      \* the argument orig
    qtr,        \* the argument translated
    qissues,    \* QaCheckResult.issues, as the sequence of the issues' codes
    qstatus     \* QaCheckResult.status

workerVars == <<pc, cur, text, i, mode, result, buf, resp, todo, after, tmp>>
sharedVars == <<cache, glossary, stats>>
fsVars     == <<queue, src, dst, dirs, main, answers>>
histVars   == <<open, spans, charPos, issued, flog>>
maskVars   == <<mphase, mtext, masked, mapping, unmasked>>
strVars    == <<variant, client, sphase, sarg, sreq, smap, scache, sstats, sglossary, slog>>
runsVars   == <<run, prev, ended, gate>>
qaVars     == <<qphase, qkind, qorig, qtr, qissues, qstatus>>
unitVars   == <<maskVars, strVars, runsVars, qaVars>>
vars       == <<workerVars, sharedVars, fsVars, histVars, unitVars>>

Workers == DOMAIN pc
Files   == DOMAIN src

NoStats ==
    [total_files |-> 0, translated_files |-> 0, skipped_files |-> 0,
     error_files |-> 0, total_input_chars |-> 0, total_output_chars |-> 0,
     total_words |-> 0, llm_time_seconds |-> 0, errors |-> <<>>]

\* One statement of the form `stats.<field> += amt` (msg unused), or
\* `stats.errors.append(msg)` when field = "errors".
Inc(field, amt) == [field |-> field, amt |-> amt, msg |-> <<>>]
AppendError(msg) == [field |-> "errors", amt |-> 0, msg |-> msg]

\* Bag-style counting of history events.
Count(bag, k) == IF k \in DOMAIN bag THEN bag[k] ELSE 0
Bump(bag, k) == (k :> Count(bag, k) + 1) @@ bag
BumpBy(bag, k, n) == (k :> Count(bag, k) + n) @@ bag

\* History of one file: how route_and_process_file ended, the step that
\* failed, whether a span translation failed, the sum of the amounts of the
\* `+=` statements run for the file per Stats field, and the messages
\* appended to errors for it.
NoLog == [outcome |-> "none", failure |-> "none", spanFailed |-> FALSE,
          incs |-> <<>>, errMsgs |-> 0]

\* ------------------------------------------------------------ the backend

\* Texts the backend may answer a request for s with: s itself (an echo) or
\* one of the texts of this backend.
BackendTexts(s) == {s} \cup answers

\* A backend that answers with a plain word, a text with an unbalanced
\* double quote, a block-comment terminator, a text with a line break, or a
\* word wrapped in quotes.
AnyAnswers == {<<"b">>, <<DQ, "b">>, <<ST, SL>>, <<"b", NL, "b">>, <<DQ, "b", DQ>>}

\* _log_glossary_pair's line: src and dst with line breaks escaped, separated
\* by a tab, ended by a line break.
RECURSIVE EscapeNewlines(_)
EscapeNewlines(s) ==
    IF s = <<>> THEN <<>>
    ELSE (IF Head(s) = NL THEN <<BS, "n">> ELSE <<Head(s)>>) \o EscapeNewlines(Tail(s))

GlossaryLine(s, t) == EscapeNewlines(s) \o <<"\t">> \o EscapeNewlines(t) \o <<NL>>

\* ------------------------------------------- JavaTranslator.translate: scan

SpanKind(m) ==
    CASE m = "STRING" -> "string" [] m = "LINE_COMMENT" -> "line" [] OTHER -> "block"

\* Mutant of Closer: a blank is put where the line break of a line comment was.
CloserBlanksNewline(m) ==
    CASE m = "STRING" -> <<DQ>> [] m = "LINE_COMMENT" -> <<" ">> [] OTHER -> <<ST, SL>>

\* The closing delimiter the scanner appends after a span's content.
Closer(m) ==
    CASE m = "STRING" -> <<DQ>> [] m = "LINE_COMMENT" -> <<NL>> [] OTHER -> <<ST, SL>>

\* Mutant of NormalStep: the extra * of a doc comment is read but not copied.
NormalStepDropsDocStar(t, k) ==
    LET n == Len(t)  ch == t[k] IN
    CASE ch = DQ -> [mode |-> "STRING", out |-> <<DQ>>, adv |-> 1]
      [] ch = SQ -> [mode |-> "CHAR", out |-> <<SQ>>, adv |-> 1]
      [] ch = SL /\ k + 1 <= n /\ t[k + 1] = SL ->
            [mode |-> "LINE_COMMENT", out |-> <<SL, SL>>, adv |-> 2]
      [] ch = SL /\ k + 1 <= n /\ t[k + 1] = ST ->
            IF k + 2 <= n /\ t[k + 2] = ST
            THEN [mode |-> "BLOCK_COMMENT", out |-> <<SL, ST>>, adv |-> 3]
            ELSE [mode |-> "BLOCK_COMMENT", out |-> <<SL, ST>>, adv |-> 2]
      [] OTHER -> [mode |-> "NORMAL", out |-> <<ch>>, adv |-> 1]

\* What the NORMAL branch does with the character at position k of t: the
\* mode it enters, the characters it appends to result, how far it advances.
NormalStep(t, k) ==
    LET n == Len(t)  ch == t[k] IN
    CASE ch = DQ -> [mode |-> "STRING", out |-> <<DQ>>, adv |-> 1]
      [] ch = SQ -> [mode |-> "CHAR", out |-> <<SQ>>, adv |-> 1]
      [] ch = SL /\ k + 1 <= n /\ t[k + 1] = SL ->
            [mode |-> "LINE_COMMENT", out |-> <<SL, SL>>, adv |-> 2]
      [] ch = SL /\ k + 1 <= n /\ t[k + 1] = ST ->
            IF k + 2 <= n /\ t[k + 2] = ST
            THEN [mode |-> "BLOCK_COMMENT", out |-> <<SL, ST, ST>>, adv |-> 3]
            ELSE [mode |-> "BLOCK_COMMENT", out |-> <<SL, ST>>, adv |-> 2]
      [] OTHER -> [mode |-> "NORMAL", out |-> <<ch>>, adv |-> 1]

\* Mutant of EndsSpan: every double quote closes a string.
EndsSpanAnyQuote(m, t, k) ==
    CASE m = "STRING" -> t[k] = DQ
      [] m = "LINE_COMMENT" -> t[k] = NL
      [] m = "BLOCK_COMMENT" -> t[k] = ST /\ k + 1 <= Len(t) /\ t[k + 1] = SL
      [] OTHER -> FALSE

\* Whether the character at position k of t ends the span read in mode m.
EndsSpan(m, t, k) ==
    CASE m = "STRING" -> t[k] = DQ /\ ~IsEscaped(t, k)
      [] m = "LINE_COMMENT" -> t[k] = NL
      [] m = "BLOCK_COMMENT" -> t[k] = ST /\ k + 1 <= Len(t) /\ t[k + 1] = SL
      [] OTHER -> FALSE

\* The end of a span: translate_buffer has returned `emitted`; the scanner
\* appends it and the closing delimiter (none at end of input) and goes on.
CloseSpan(w, emitted, how) ==
    LET eof == i[w] > Len(text[w])
        rec == [kind |-> SpanKind(mode[w]), from |-> open[w], inner |-> buf[w],
                how |-> how, emitted |-> emitted, outPos |-> Len(result[w]) + 1,
                closed |-> IF eof THEN "eof" ELSE "delim"]
    IN  /\ result' = [result EXCEPT ![w] =
                         @ \o emitted \o (IF eof THEN <<>> ELSE Closer(mode[w]))]
        /\ buf' = [buf EXCEPT ![w] = <<>>]
        /\ mode' = [mode EXCEPT ![w] = IF eof THEN @ ELSE "NORMAL"]
        /\ i' = [i EXCEPT ![w] = IF eof THEN @ ELSE @ + Len(Closer(mode[w]))]
        /\ pc' = [pc EXCEPT ![w] = IF eof THEN "scanned" ELSE "scan"]
        /\ spans' = [spans EXCEPT ![cur[w]] = Append(@, rec)]
        /\ flog' = IF how = "failed"
                   THEN [flog EXCEPT ![cur[w]].spanFailed = TRUE]
                   ELSE flog

\* translate_buffer up to the backend call: empty content is returned as is,
\* a cached string is answered from the cache (translate_string), anything
\* else is sent to the backend.
BeginTranslate(w) ==
    IF buf[w] = <<>>
    THEN CloseSpan(w, <<>>, "empty") /\ UNCHANGED issued
    ELSE IF buf[w] \in DOMAIN cache
    THEN CloseSpan(w, cache[buf[w]], "cached") /\ UNCHANGED issued
    ELSE /\ pc' = [pc EXCEPT ![w] = "llm"]
         /\ issued' = Bump(issued, buf[w])
         /\ UNCHANGED <<i, mode, result, buf, spans, flog>>

Scanning(w) == pc[w] = "scan" /\ i[w] <= Len(text[w])

ScanNormal(w) ==
    /\ Scanning(w) /\ mode[w] = "NORMAL"
    /\ LET s == NormalStep(text[w], i[w]) IN
        /\ mode' = [mode EXCEPT ![w] = s.mode]
        /\ result' = [result EXCEPT ![w] = @ \o s.out]
        /\ i' = [i EXCEPT ![w] = @ + s.adv]
        /\ buf' = [buf EXCEPT ![w] = IF s.mode \in {"NORMAL", "CHAR"} THEN @ ELSE <<>>]
        /\ open' = [open EXCEPT ![w] = IF s.mode = "NORMAL" THEN @ ELSE i[w] + s.adv]
    /\ UNCHANGED <<unitVars, pc, cur, text, resp, todo, after, tmp, sharedVars, fsVars,
                   spans, charPos, issued, flog>>

\* Mutant of ScanSpan: a backslash inside a span is looked at and the read
\* position is left where it is.
ScanSpanStalls(w) ==
    /\ Scanning(w) /\ mode[w] \in {"STRING", "LINE_COMMENT", "BLOCK_COMMENT"}
    /\ IF EndsSpan(mode[w], text[w], i[w])
       THEN BeginTranslate(w)
       ELSE /\ buf' = [buf EXCEPT ![w] =
                          IF text[w][i[w]] = BS THEN @ ELSE Append(@, text[w][i[w]])]
            /\ i' = [i EXCEPT ![w] = IF text[w][i[w]] = BS THEN @ ELSE @ + 1]
            /\ UNCHANGED <<pc, mode, result, spans, issued, flog>>
    /\ UNCHANGED <<unitVars, cur, text, resp, todo, after, tmp, sharedVars, fsVars, open, charPos>>

\* STRING, LINE_COMMENT and BLOCK_COMMENT: collect the content in buf until
\* the closing delimiter, then translate it.
ScanSpan(w) ==
    /\ Scanning(w) /\ mode[w] \in {"STRING", "LINE_COMMENT", "BLOCK_COMMENT"}
    /\ IF EndsSpan(mode[w], text[w], i[w])
       THEN BeginTranslate(w)
       ELSE /\ buf' = [buf EXCEPT ![w] = Append(@, text[w][i[w]])]
            /\ i' = [i EXCEPT ![w] = @ + 1]
            /\ UNCHANGED <<pc, mode, result, spans, issued, flog>>
    /\ UNCHANGED <<unitVars, cur, text, resp, todo, after, tmp, sharedVars, fsVars, open, charPos>>

\* Mutant of ScanChar: the content of a char literal is looked up in the
\* translation cache like the content of a string.
ScanCharTranslated(w) ==
    /\ Scanning(w) /\ mode[w] = "CHAR"
    /\ result' = [result EXCEPT ![w] =
                     @ \o (IF <<text[w][i[w]]>> \in DOMAIN cache
                           THEN cache[<<text[w][i[w]]>>]
                           ELSE <<text[w][i[w]]>>)]
    /\ mode' = [mode EXCEPT ![w] =
                   IF text[w][i[w]] = SQ /\ ~IsEscaped(text[w], i[w]) THEN "NORMAL" ELSE @]
    /\ i' = [i EXCEPT ![w] = @ + 1]
    /\ charPos' = [charPos EXCEPT ![cur[w]] = @ \cup {<<i[w], Len(result[w]) + 1>>}]
    /\ UNCHANGED <<unitVars, pc, cur, text, buf, resp, todo, after, tmp, sharedVars, fsVars,
                   open, spans, issued, flog>>

\* CHAR: copy every character; an unescaped ' ends the literal.
ScanChar(w) ==
    /\ Scanning(w) /\ mode[w] = "CHAR"
    /\ result' = [result EXCEPT ![w] = Append(@, text[w][i[w]])]
    /\ mode' = [mode EXCEPT ![w] =
                   IF text[w][i[w]] = SQ /\ ~IsEscaped(text[w], i[w]) THEN "NORMAL" ELSE @]
    /\ i' = [i EXCEPT ![w] = @ + 1]
    /\ charPos' = [charPos EXCEPT ![cur[w]] = @ \cup {<<i[w], Len(result[w]) + 1>>}]
    /\ UNCHANGED <<unitVars, pc, cur, text, buf, resp, todo, after, tmp, sharedVars, fsVars,
                   open, spans, issued, flog>>

\* Mutant of ScanTail: an unterminated block comment or string is translated
\* like a trailing line comment.
ScanTailTranslatesAll(w) ==
    /\ pc[w] = "scan" /\ i[w] > Len(text[w])
    /\ CASE mode[w] \in {"LINE_COMMENT", "BLOCK_COMMENT", "STRING"} -> BeginTranslate(w)
         [] OTHER ->
              /\ pc' = [pc EXCEPT ![w] = "scanned"]
              /\ UNCHANGED <<i, mode, result, buf, spans, issued, flog>>
    /\ UNCHANGED <<unitVars, cur, text, resp, todo, after, tmp, sharedVars, fsVars, open, charPos>>

\* Mutant of ScanTail: a trailing line comment is copied as it stands, like an
\* unterminated block comment.
ScanTailCopiesAll(w) ==
    /\ pc[w] = "scan" /\ i[w] > Len(text[w])
    /\ CASE mode[w] \in {"LINE_COMMENT", "BLOCK_COMMENT", "STRING"} ->
              /\ result' = [result EXCEPT ![w] = @ \o buf[w]]
              /\ pc' = [pc EXCEPT ![w] = "scanned"]
              /\ spans' = [spans EXCEPT ![cur[w]] = Append(@,
                     [kind |-> SpanKind(mode[w]), from |-> open[w], inner |-> buf[w],
                      how |-> "verbatim", emitted |-> buf[w],
                      outPos |-> Len(result[w]) + 1, closed |-> "eof"])]
              /\ UNCHANGED <<i, mode, buf, issued, flog>>
         [] OTHER ->
              /\ pc' = [pc EXCEPT ![w] = "scanned"]
              /\ UNCHANGED <<i, mode, result, buf, spans, issued, flog>>
    /\ UNCHANGED <<unitVars, cur, text, resp, todo, after, tmp, sharedVars, fsVars, open, charPos>>

\* End of input: a line comment is still translated; an unterminated block
\* comment or string is copied as it stands.
ScanTail(w) ==
    /\ pc[w] = "scan" /\ i[w] > Len(text[w])
    /\ CASE mode[w] = "LINE_COMMENT" -> BeginTranslate(w)
         [] mode[w] \in {"BLOCK_COMMENT", "STRING"} ->
              /\ result' = [result EXCEPT ![w] = @ \o buf[w]]
              /\ pc' = [pc EXCEPT ![w] = "scanned"]
              /\ spans' = [spans EXCEPT ![cur[w]] = Append(@,
                     [kind |-> SpanKind(mode[w]), from |-> open[w], inner |-> buf[w],
                      how |-> "verbatim", emitted |-> buf[w],
                      outPos |-> Len(result[w]) + 1, closed |-> "eof"])]
              /\ UNCHANGED <<i, mode, buf, issued, flog>>
         [] OTHER ->
              /\ pc' = [pc EXCEPT ![w] = "scanned"]
              /\ UNCHANGED <<i, mode, result, buf, spans, issued, flog>>
    /\ UNCHANGED <<unitVars, cur, text, resp, todo, after, tmp, sharedVars, fsVars, open, charPos>>

\* ------------------------------ StringTranslator.translate_string: backend

\* The statements of an `except` branch of route_and_process_file.
ErrorTodo(kind, f) == <<Inc("error_files", 1), AppendError(<<kind, f>>)>>

\* Mutant of LlmFail: translate_buffer does not catch the error, translate
\* raises and route_and_process_file records a file error.
LlmFailEscapes(w) ==
    /\ pc[w] = "llm"
    /\ pc' = [pc EXCEPT ![w] = "inc"]
    /\ todo' = [todo EXCEPT ![w] = ErrorTodo("Translate", cur[w])]
    /\ after' = [after EXCEPT ![w] = "ret"]
    /\ flog' = [flog EXCEPT ![cur[w]].outcome = "error", ![cur[w]].failure = "translate",
                             ![cur[w]].spanFailed = TRUE]
    /\ UNCHANGED <<unitVars, cur, text, i, mode, result, buf, resp, tmp, sharedVars, fsVars,
                   open, spans, charPos, issued>>

\* The backend call raises: translate_buffer logs the error and returns the
\* original content.
LlmFail(w) ==
    /\ pc[w] = "llm"
    /\ CloseSpan(w, buf[w], "failed")
    /\ UNCHANGED <<unitVars, cur, text, resp, todo, after, tmp, sharedVars, fsVars,
                   open, charPos, issued>>

\* The backend answers r: _call_llm goes on to add to the statistics.
LlmReturn(w) ==
    /\ pc[w] = "llm"
    /\ \E r \in BackendTexts(buf[w]) :
        /\ resp' = [resp EXCEPT ![w] = r]
        /\ todo' = [todo EXCEPT ![w] =
                       <<Inc("llm_time_seconds", 1), Inc("total_words", WordCount(r))>>]
    /\ after' = [after EXCEPT ![w] = "store"]
    /\ pc' = [pc EXCEPT ![w] = "inc"]
    /\ UNCHANGED <<unitVars, cur, text, i, mode, result, buf, tmp, sharedVars, fsVars, histVars>>

\* `stats.x += d` reads the field ...
StatsLoad(w) ==
    /\ pc[w] = "inc"
    /\ LET item == Head(todo[w]) IN
       IF item.field = "errors"
       THEN /\ stats' = [stats EXCEPT !.errors = Append(@, item.msg)]
            /\ todo' = [todo EXCEPT ![w] = Tail(@)]
            /\ pc' = [pc EXCEPT ![w] = IF Tail(todo[w]) = <<>> THEN after[w] ELSE "inc"]
            /\ flog' = [flog EXCEPT ![cur[w]].errMsgs = @ + 1]
            /\ UNCHANGED tmp
       ELSE /\ tmp' = [tmp EXCEPT ![w] = stats[item.field]]
            /\ pc' = [pc EXCEPT ![w] = "incst"]
            /\ UNCHANGED <<stats, todo, flog>>
    /\ UNCHANGED <<unitVars, cur, text, i, mode, result, buf, resp, after, cache, glossary,
                   fsVars, open, spans, charPos, issued>>

\* ... and then writes the sum back.
StatsStore(w) ==
    /\ pc[w] = "incst"
    /\ stats' = [stats EXCEPT ![Head(todo[w]).field] = tmp[w] + Head(todo[w]).amt]
    /\ todo' = [todo EXCEPT ![w] = Tail(@)]
    /\ pc' = [pc EXCEPT ![w] = IF Tail(todo[w]) = <<>> THEN after[w] ELSE "inc"]
    /\ flog' = [flog EXCEPT ![cur[w]].incs =
                                 BumpBy(@, Head(todo[w]).field, Head(todo[w]).amt)]
    /\ UNCHANGED <<unitVars, cur, text, i, mode, result, buf, resp, after, tmp, cache, glossary,
                   fsVars, open, spans, charPos, issued>>

\* Mutant of CacheAfter: the result is not stored.
CacheAfterForgets(c, s, t) == c

\* self._cache[s] = t
CacheAfter(c, s, t) == (s :> t) @@ c

\* f.write(line) on a file opened for appending by this call alone: the
\* buffered writer hands the line to the raw file when the file is closed, and
\* writes again what a raw write did not take. The raw write that takes only
\* part of the line takes its first half.
GlossaryFirst(s, t) ==
    SubSeq(GlossaryLine(s, t), 1, Len(GlossaryLine(s, t)) \div 2)

GlossaryRest(s, t) ==
    SubSeq(GlossaryLine(s, t), Len(GlossaryLine(s, t)) \div 2 + 1, Len(GlossaryLine(s, t)))

\* translate_string after _call_llm: cache the result, log the glossary pair
\* (a failed append is swallowed) and return it to translate_buffer. The line
\* reaches the file in one raw write: each entry of glossary is the text of
\* one raw write.
CacheStore(w) ==
    /\ pc[w] = "store"
    /\ LET t == StripQuotes(resp[w]) IN
        /\ cache' = CacheAfter(cache, buf[w], t)
        /\ \E logged \in BOOLEAN :
              glossary' = IF logged THEN Append(glossary, GlossaryLine(buf[w], t))
                          ELSE glossary
        /\ CloseSpan(w, t, "translated")
    /\ UNCHANGED <<unitVars, cur, text, resp, todo, after, tmp, stats, fsVars, open, charPos, issued>>

\* The same step when the first raw write takes only part of the line: no
\* lock is held while the second one is on its way.
CacheStoreSplit(w) ==
    /\ pc[w] = "store"
    /\ LET t == StripQuotes(resp[w]) IN
        /\ cache' = CacheAfter(cache, buf[w], t)
        /\ glossary' = Append(glossary, GlossaryFirst(buf[w], t))
    /\ pc' = [pc EXCEPT ![w] = "gloss"]
    /\ UNCHANGED <<unitVars, cur, text, i, mode, result, buf, resp, todo, after, tmp, stats,
                   fsVars, histVars>>

\* The second raw write of a glossary line, then the return to
\* translate_buffer.
GlossaryFlush(w) ==
    /\ pc[w] = "gloss"
    /\ LET t == StripQuotes(resp[w]) IN
        /\ glossary' = Append(glossary, GlossaryRest(buf[w], t))
        /\ CloseSpan(w, t, "translated")
    /\ UNCHANGED <<unitVars, cur, text, resp, todo, after, tmp, cache, stats, fsVars, open,
                   charPos, issued>>

\* The state of the variables of a part of the program that a specification
\* does not run.
MaskIdle ==
    /\ mphase = "off" /\ mtext = <<>> /\ masked = <<>> /\ mapping = <<>> /\ unmasked = <<>>

QaIdle ==
    /\ qphase = "off" /\ qkind = "none" /\ qorig = <<>> /\ qtr = <<>>
    /\ qissues = <<>> /\ qstatus = "none"

StrIdle ==
    /\ variant = "none" /\ client = "none" /\ sphase = "off" /\ sarg = <<>> /\ sreq = <<>> /\ smap = <<>>
    /\ scache = <<>>
    /\ sstats = NoStats /\ sglossary = <<>> /\ slog = <<>>

\* --------------------------------------------------- translate(text) alone

\* Constructs, paired up to give texts with two spans: a string, a line
\* comment, a block comment, a char literal, a line comment and a block
\* comment that are not closed, and the empty block comment.
Constructs ==
    {<<DQ, "a", DQ>>, <<SL, SL, "a", NL>>, <<SL, ST, "a", ST, SL>>, <<SQ, "a", SQ>>,
     <<SL, SL, "a">>, <<SL, ST, "a">>, <<SL, ST, ST, SL>>}

\* The texts translate is called with: every text of at most MaxLen
\* characters, and every pair of constructs.
Texts == SeqsUpTo(Chars, MaxLen) \cup {a \o b : a, b \in Constructs}

\* The cache translate starts with: empty, or filled by an earlier file.
CacheSeeds == {<<>>, (<<"a">> :> <<"b">>)}

InitScan ==
    /\ \E t \in Texts :
        /\ text = [w \in {1} |-> t]
        /\ src = [f \in {1} |-> [text |-> t, ext |-> ".java"]]
    /\ cache \in CacheSeeds
    /\ pc = [w \in {1} |-> "scan"]
    /\ cur = [w \in {1} |-> 1]
    /\ i = [w \in {1} |-> 1]
    /\ mode = [w \in {1} |-> "NORMAL"]
    /\ result = [w \in {1} |-> <<>>]
    /\ buf = [w \in {1} |-> <<>>]
    /\ resp = [w \in {1} |-> <<>>]
    /\ todo = [w \in {1} |-> <<>>]
    /\ after = [w \in {1} |-> "scan"]
    /\ tmp = [w \in {1} |-> 0]
    /\ glossary = <<>>
    /\ stats = NoStats
    /\ queue = <<>>
    /\ dst = [f \in {1} |-> [exists |-> FALSE, text |-> <<>>, whole |-> TRUE]]
    /\ run = 1 /\ prev = dst /\ ended = "none" /\ gate = "not_run"
    /\ dirs = {}
    /\ main = "running"
    /\ answers = AnyAnswers
    /\ open = [w \in {1} |-> 0]
    /\ spans = [f \in {1} |-> <<>>]
    /\ charPos = [f \in {1} |-> {}]
    /\ issued = <<>>
    /\ flog = [f \in {1} |-> NoLog]
    /\ MaskIdle /\ StrIdle /\ QaIdle

NextScan ==
    \/ \E w \in Workers : ScanNormal(w)
    \/ \E w \in Workers : ScanSpan(w)
    \/ \E w \in Workers : ScanChar(w)
    \/ \E w \in Workers : ScanTail(w)
    \/ \E w \in Workers : LlmFail(w)
    \/ \E w \in Workers : LlmReturn(w)
    \/ \E w \in Workers : StatsLoad(w)
    \/ \E w \in Workers : StatsStore(w)
    \/ \E w \in Workers : CacheStore(w)

Spec == InitScan /\ [][NextScan]_vars

\* ------------------------------------------ qa_report._mask_java_skeleton

RECURSIVE Digits(_)
Digits(n) ==
    LET d == <<"0", "1", "2", "3", "4", "5", "6", "7", "8", "9">>[(n % 10) + 1]
    IN  IF n < 10 THEN <<d>> ELSE Append(Digits(n \div 10), d)

\* f"__STR{n}__" / f"__CMT{n}__"
Marker(kind, n) == <<"_", "_">> \o kind \o Digits(n) \o <<"_", "_">>

\* The first position >= k holding a line break, Len(t) + 1 when none.
RECURSIVE LineEnd(_, _)
LineEnd(t, k) ==
    IF k > Len(t) \/ t[k] \in {"\r", "\n"} THEN k ELSE LineEnd(t, k + 1)

\* text.find("*/", k): the position of the first "*/" at or after k, 0 when none.
RECURSIVE FindClose(_, _)
FindClose(t, k) ==
    IF k + 1 > Len(t) THEN 0
    ELSE IF t[k] = ST /\ t[k + 1] = SL THEN k
    ELSE FindClose(t, k + 1)

\* The position after the quote q that closes a literal whose content starts
\* at k (a backslash escapes the next character), Len(t) + 1 when none.
RECURSIVE QuoteEnd(_, _, _, _)
QuoteEnd(t, k, q, escaped) ==
    IF k > Len(t) THEN k
    ELSE IF escaped THEN QuoteEnd(t, k + 1, q, FALSE)
    ELSE IF t[k] = BS THEN QuoteEnd(t, k + 1, q, TRUE)
    ELSE IF t[k] = q THEN k + 1
    ELSE QuoteEnd(t, k + 1, q, FALSE)

RECURSIVE SkeletonFrom(_, _, _, _, _)
SkeletonFrom(t, k, out, strs, cmts) ==
    LET n == Len(t) IN
    IF k > n THEN [sk |-> out, strs |-> strs, cmts |-> cmts]
    ELSE IF t[k] = SL /\ k + 1 <= n /\ t[k + 1] = SL
    THEN LET e == LineEnd(t, k + 2)
             marked == out \o Marker(<<"C", "M", "T">>, cmts)
         IN  IF e <= n
             THEN SkeletonFrom(t, e + 1, Append(marked, t[e]), strs, cmts + 1)
             ELSE SkeletonFrom(t, e, marked, strs, cmts + 1)
    ELSE IF t[k] = SL /\ k + 1 <= n /\ t[k + 1] = ST
    THEN LET e == FindClose(t, k + 2)
             marked == out \o Marker(<<"C", "M", "T">>, cmts)
         IN  IF e = 0
             THEN [sk |-> marked, strs |-> strs, cmts |-> cmts + 1]
             ELSE SkeletonFrom(t, e + 2, marked, strs, cmts + 1)
    ELSE IF t[k] = DQ
    THEN SkeletonFrom(t, QuoteEnd(t, k + 1, DQ, FALSE),
                      out \o Marker(<<"S", "T", "R">>, strs), strs + 1, cmts)
    ELSE IF t[k] = SQ /\ k + 1 <= n
    THEN SkeletonFrom(t, QuoteEnd(t, k + 1, SQ, FALSE), out \o <<SQ, SQ>>, strs, cmts)
    ELSE SkeletonFrom(t, k + 1, Append(out, t[k]), strs, cmts)

\* _mask_java_skeleton(text): the skeleton and the string and comment counts.
Skeleton(t) == SkeletonFrom(t, 1, <<>>, 0, 0)

\* The stretches of t that _mask_java_skeleton puts a marker for, from
\* position k on: what they are, their first and their last position (the
\* delimiters are part of them, the line break after a line comment is not).
RECURSIVE QaSpansFrom(_, _)
QaSpansFrom(t, k) ==
    LET n == Len(t) IN
    IF k > n THEN <<>>
    ELSE IF t[k] = SL /\ k + 1 <= n /\ t[k + 1] = SL
    THEN LET e == LineEnd(t, k + 2)
         IN  <<[kind |-> "comment", start |-> k, stop |-> e - 1]>> \o QaSpansFrom(t, e + 1)
    ELSE IF t[k] = SL /\ k + 1 <= n /\ t[k + 1] = ST
    THEN LET e == FindClose(t, k + 2)
         IN  IF e = 0
             THEN <<[kind |-> "comment", start |-> k, stop |-> n]>>
             ELSE <<[kind |-> "comment", start |-> k, stop |-> e + 1]>>
                  \o QaSpansFrom(t, e + 2)
    ELSE IF t[k] = DQ
    THEN LET e == QuoteEnd(t, k + 1, DQ, FALSE)
         IN  <<[kind |-> "string", start |-> k, stop |-> e - 1]>> \o QaSpansFrom(t, e)
    ELSE IF t[k] = SQ /\ k + 1 <= n
    THEN QaSpansFrom(t, QuoteEnd(t, k + 1, SQ, FALSE))
    ELSE QaSpansFrom(t, k + 1)

\* ===================================================== claims: the scanner

\* A span whose content was handed to translate_string.
Passed(rec) == rec.how \in {"cached", "translated", "failed"}

\* The positions of text a span's content was read from.
SpanRange(rec) == rec.from .. (rec.from + Len(rec.inner) - 1)

SpansOf(w) == spans[cur[w]]
SpanSet(w) == {SpansOf(w)[k] : k \in 1..Len(SpansOf(w))}

\* C1. Lossless partition: when translate has returned and every span's
\* content was emitted unchanged, the output is the input text exactly.
C1_LosslessPartition ==
    \A w \in Workers :
        (pc[w] = "scanned" /\ \A rec \in SpanSet(w) : rec.emitted = rec.inner)
            => result[w] = text[w]

\* C1 witness: a scan that ended on a text with a string and a comment, both
\* answered by the backend with the content itself.
C1_Witness ==
    \E w \in Workers :
        /\ pc[w] = "scanned"
        /\ \A rec \in SpanSet(w) : rec.emitted = rec.inner
        /\ \E a, b \in SpanSet(w) :
              a.how = "translated" /\ a.kind = "string" /\ b.kind = "block" /\ Passed(b)
        /\ result[w] = text[w]

\* C5. Skeleton preservation (as claimed): when translate has returned and no
\* span translation failed, the skeleton of the output equals the skeleton of
\* the input.
C5_SkeletonPreserved ==
    \A w \in Workers :
        (pc[w] = "scanned" /\ \A rec \in SpanSet(w) : rec.how # "failed")
            => Skeleton(result[w]) = Skeleton(text[w])

\* C6. Char-literal inviolability: every character read in CHAR mode stands
\* unchanged in the output, and no content handed to translate_string (now
\* or earlier) covers a position read in CHAR mode.
C6_CharLiteralInviolate ==
    \A w \in Workers :
        /\ \A p \in charPos[cur[w]] :
              p[2] <= Len(result[w]) /\ result[w][p[2]] = text[w][p[1]]
        /\ \A rec \in SpanSet(w) :
              Passed(rec) =>
                  /\ rec.inner = SubSeq(text[w], rec.from, rec.from + Len(rec.inner) - 1)
                  /\ \A p \in charPos[cur[w]] : p[1] \notin SpanRange(rec)
        /\ pc[w] \in {"llm", "inc", "incst", "store"} =>
              /\ buf[w] = SubSeq(text[w], open[w], open[w] + Len(buf[w]) - 1)
              /\ \A p \in charPos[cur[w]] :
                    p[1] \notin open[w] .. (open[w] + Len(buf[w]) - 1)

\* C6 witness: a finished scan that copied a char literal with content and
\* also replaced the content of another span by a different text.
C6_Witness ==
    \E w \in Workers :
        /\ pc[w] = "scanned"
        /\ Cardinality(charPos[cur[w]]) >= 2
        /\ \E rec \in SpanSet(w) : rec.how = "translated" /\ rec.emitted # rec.inner

\* C7. Unterminated constructs: when the input ends in STRING, CHAR or
\* BLOCK_COMMENT mode, everything after the opening delimiter stands verbatim
\* at the end of the output and no part of it was handed to translate_string;
\* a text that is only an unterminated block comment comes out unchanged
\* with no backend call and no translate_string call.
C7_UnterminatedVerbatim ==
    \A w \in Workers :
        (pc[w] = "scanned" /\ mode[w] \in {"STRING", "CHAR", "BLOCK_COMMENT"}) =>
            LET n == Len(text[w])
                rest == SubSeq(text[w], open[w], n)
            IN  /\ Len(result[w]) >= Len(rest)
                /\ SubSeq(result[w], Len(result[w]) - Len(rest) + 1, Len(result[w])) = rest
                /\ \A rec \in SpanSet(w) :
                      Passed(rec) => \A q \in SpanRange(rec) : q < open[w]
                /\ (mode[w] = "BLOCK_COMMENT" /\ Len(SpansOf(w)) = 1
                      /\ SubSeq(text[w], 1, 2) = <<SL, ST>>) =>
                        /\ result[w] = text[w]
                        /\ issued = <<>>
                        /\ ~Passed(SpansOf(w)[1])

\* C7 witness: a scan that ended inside a block comment with content, after a
\* first span whose content the backend replaced.
C7_Witness ==
    \E w \in Workers :
        /\ pc[w] = "scanned" /\ mode[w] = "BLOCK_COMMENT" /\ buf[w] # <<>>
        /\ \E rec \in SpanSet(w) : rec.how = "translated" /\ rec.emitted # rec.inner

\* C8. Trailing line comment: the content of a line comment (the text between
\* // and the line break or the end of input, never the line break) is handed
\* to translate_string also when the input ends in LINE_COMMENT mode (empty
\* content is returned as it is by translate_buffer); what came back stands
\* in the output right after an unchanged //, followed by the line break when
\* the comment ended with one and by nothing at end of input.
C8_TrailingLineComment ==
    \A w \in Workers :
        pc[w] = "scanned" =>
            /\ (mode[w] = "LINE_COMMENT" =>
                  /\ Len(SpansOf(w)) >= 1
                  /\ SpansOf(w)[Len(SpansOf(w))].kind = "line"
                  /\ SpansOf(w)[Len(SpansOf(w))].closed = "eof")
            /\ \A rec \in SpanSet(w) :
                  rec.kind = "line" =>
                      LET last == rec.outPos + Len(rec.emitted) - 1
                          stop == rec.from + Len(rec.inner)
                      IN  /\ rec.inner = SubSeq(text[w], rec.from, stop - 1)
                          /\ \A q \in 1..Len(rec.inner) : rec.inner[q] # NL
                          /\ SubSeq(text[w], rec.from - 2, rec.from - 1) = <<SL, SL>>
                          /\ IF rec.inner = <<>>
                             THEN rec.how = "empty" /\ rec.emitted = <<>>
                             ELSE Passed(rec)
                          /\ rec.how = "cached" => rec.emitted = cache[rec.inner]
                          /\ SubSeq(result[w], rec.outPos - 2, rec.outPos - 1) = <<SL, SL>>
                          /\ SubSeq(result[w], rec.outPos, last) = rec.emitted
                          /\ IF rec.closed = "eof"
                             THEN last = Len(result[w]) /\ stop = Len(text[w]) + 1
                             ELSE /\ last + 1 <= Len(result[w])
                                  /\ result[w][last + 1] = NL
                                  /\ text[w][stop] = NL

\* C8 witness: the input ended inside a line comment with content, and the
\* backend answered its request with another text.
C8_Witness ==
    \E w \in Workers :
        /\ pc[w] = "scanned" /\ mode[w] = "LINE_COMMENT"
        /\ LET rec == SpansOf(w)[Len(SpansOf(w))]
           IN  rec.how = "translated" /\ rec.emitted # rec.inner /\ rec.inner # <<>>

\* The spans the scan loop finds in t from position k on, in mode m with the
\* content of the construct being read starting at from: a function of the
\* text alone.
RECURSIVE SpansFrom(_, _, _, _)
SpansFrom(t, k, m, from) ==
    IF k > Len(t)
    THEN IF m \in {"STRING", "LINE_COMMENT", "BLOCK_COMMENT"}
         THEN <<[kind |-> SpanKind(m), from |-> from, len |-> k - from, closed |-> "eof"]>>
         ELSE <<>>
    ELSE IF m = "NORMAL"
    THEN SpansFrom(t, k + NormalStep(t, k).adv, NormalStep(t, k).mode,
                   k + NormalStep(t, k).adv)
    ELSE IF m = "CHAR"
    THEN SpansFrom(t, k + 1, IF t[k] = SQ /\ ~IsEscaped(t, k) THEN "NORMAL" ELSE m, from)
    ELSE IF EndsSpan(m, t, k)
    THEN <<[kind |-> SpanKind(m), from |-> from, len |-> k - from, closed |-> "delim"]>>
         \o SpansFrom(t, k + Len(Closer(m)), "NORMAL", from)
    ELSE SpansFrom(t, k + 1, m, from)

\* The spans a finished scan recorded, without what was emitted for them.
Found(sp) ==
    [q \in 1..Len(sp) |->
        [kind |-> sp[q].kind, from |-> sp[q].from, len |-> Len(sp[q].inner),
         closed |-> sp[q].closed]]

\* The scan under fair scheduling: the loop goes on, and a backend call
\* returns or fails.
SpecScanFair == Spec /\ WF_vars(NextScan)

\* C23. The scanner is total and terminating: the read position stays
\* within the text or just behind it; every pass of the loop moves it
\* forward by at least one character and the text is never changed, so the
\* loop makes at most len(text) passes; the scan ends; and the spans it
\* found are a function of the text alone, whatever the backend answered.
C23_ScannerTotal ==
    /\ [](\A w \in Workers : 1 <= i[w] /\ i[w] <= Len(text[w]) + 1)
    /\ [][\A w \in Workers :
              /\ text'[w] = text[w]
              /\ i'[w] >= i[w]
              /\ pc'[w] = "scan" => i'[w] > i[w]]_vars
    /\ [](\A w \in Workers :
              pc[w] = "scanned" => Found(SpansOf(w)) = SpansFrom(text[w], 1, "NORMAL", 1))
    /\ <>(\A w \in Workers : pc[w] = "scanned")

\* C23 witness: a scan of a malformed text has ended: the text ends inside a
\* char literal that was never closed, after a span the backend translated.
C23_Witness ==
    \E w \in Workers :
        /\ pc[w] = "scanned" /\ mode[w] = "CHAR"
        /\ i[w] = Len(text[w]) + 1
        /\ \E rec \in SpanSet(w) : rec.how = "translated"

\* The text t with the content of each span exchanged for what was emitted
\* for it, from position k and span q on.
RECURSIVE Assemble(_, _, _, _)
Assemble(t, sp, k, q) ==
    IF q <= Len(sp) /\ sp[q].from = k
    THEN sp[q].emitted \o Assemble(t, sp, k + Len(sp[q].inner), q + 1)
    ELSE IF k > Len(t) THEN <<>>
    ELSE <<t[k]>> \o Assemble(t, sp, k + 1, q)

\* The opening delimiter stands right before position k of t.
OpenedAt(kind, t, k) ==
    CASE kind = "string" -> k >= 2 /\ t[k - 1] = DQ
      [] kind = "line" -> k >= 3 /\ SubSeq(t, k - 2, k - 1) = <<SL, SL>>
      [] OTHER -> \/ k >= 3 /\ SubSeq(t, k - 2, k - 1) = <<SL, ST>>
                  \/ k >= 4 /\ SubSeq(t, k - 3, k - 1) = <<SL, ST, ST>>

\* The closing delimiter stands at position k of t.
ClosedAt(kind, t, k) ==
    CASE kind = "string" -> k <= Len(t) /\ t[k] = DQ
      [] kind = "line" -> k <= Len(t) /\ t[k] = NL
      [] OTHER -> k + 1 <= Len(t) /\ SubSeq(t, k, k + 1) = <<ST, SL>>

\* C24. Code is left untouched: the output of a finished scan is the input
\* with nothing changed but the contents of string and comment spans, each
\* exchanged for what translate_buffer returned; each content lies between
\* its delimiters, which stand around it in the input and in the output.
C24_CodeUntouched ==
    \A w \in Workers :
        pc[w] = "scanned" =>
            /\ result[w] = Assemble(text[w], SpansOf(w), 1, 1)
            /\ \A rec \in SpanSet(w) :
                  /\ rec.kind \in {"string", "line", "block"}
                  /\ rec.inner = SubSeq(text[w], rec.from, rec.from + Len(rec.inner) - 1)
                  /\ OpenedAt(rec.kind, text[w], rec.from)
                  /\ OpenedAt(rec.kind, result[w], rec.outPos)
                  /\ SubSeq(result[w], rec.outPos, rec.outPos + Len(rec.emitted) - 1)
                        = rec.emitted
                  /\ rec.closed = "delim" =>
                        /\ ClosedAt(rec.kind, text[w], rec.from + Len(rec.inner))
                        /\ ClosedAt(rec.kind, result[w], rec.outPos + Len(rec.emitted))

\* C24 witness: a finished scan of a text with a char literal after a line
\* comment whose content the backend exchanged for a longer text.
C24_Witness ==
    \E w \in Workers :
        /\ pc[w] = "scanned" /\ mode[w] = "NORMAL"
        /\ charPos[cur[w]] # {}
        /\ \E rec \in SpanSet(w) :
              /\ rec.kind = "line" /\ rec.how = "translated"
              /\ Len(rec.emitted) > Len(rec.inner)

\* The number of backslashes that stand in a row right before position k.
RECURSIVE Backslashes(_, _)
Backslashes(t, k) ==
    IF k >= 2 /\ t[k - 1] = BS THEN 1 + Backslashes(t, k - 1) ELSE 0

\* C25. String termination rule: inside a string literal a double quote
\* with an even number of backslashes right before it closes the literal,
\* and one with an odd number is content and the scanner stays in the
\* string: the content of a string span holds only quotes of the second
\* sort, and it is ended by a quote of the first sort or by the end of the
\* text.
C25_StringTermination ==
    \A w \in Workers :
        /\ \A rec \in SpanSet(w) :
              rec.kind = "string" =>
                  LET stop == rec.from + Len(rec.inner) IN
                  /\ \A q \in rec.from..(stop - 1) :
                        text[w][q] = DQ => Backslashes(text[w], q) % 2 = 1
                  /\ IF rec.closed = "delim"
                     THEN text[w][stop] = DQ /\ Backslashes(text[w], stop) % 2 = 0
                     ELSE stop = Len(text[w]) + 1
        /\ (mode[w] = "STRING" /\ pc[w] = "scan") =>
              /\ buf[w] = SubSeq(text[w], open[w], i[w] - 1)
              /\ \A q \in open[w]..(i[w] - 1) :
                    text[w][q] = DQ => Backslashes(text[w], q) % 2 = 1

\* C25 witness: a finished scan closed a string whose content holds a
\* double quote.
C25_Witness ==
    \E w \in Workers :
        /\ pc[w] = "scanned"
        /\ \E rec \in SpanSet(w) :
              /\ rec.kind = "string" /\ rec.closed = "delim"
              /\ \E q \in 1..Len(rec.inner) : rec.inner[q] = DQ

\* C26 (as claimed). String opening rule: the double quote that opens a
\* string literal has an even number of backslashes right before it; a
\* quote with an odd number met in NORMAL mode opens no string.
C26_StringOpening ==
    \A w \in Workers :
        /\ \A rec \in SpanSet(w) :
              rec.kind = "string" => Backslashes(text[w], rec.from - 1) % 2 = 0
        /\ (mode[w] = "STRING" /\ pc[w] = "scan") =>
              Backslashes(text[w], open[w] - 1) % 2 = 0

\* A span of the scanner as a stretch of the text with its delimiters (the
\* line break after a line comment left out).
Stretch(t, rec) ==
    LET opener == CASE rec.kind = "string" -> 1
                    [] rec.kind = "line" -> 2
                    [] OTHER -> IF t[rec.from - 2] = ST THEN 3 ELSE 2
        closer == CASE rec.closed = "eof" -> 0
                    [] rec.kind = "string" -> 1
                    [] rec.kind = "line" -> 0
                    [] OTHER -> 2
    IN  [kind |-> IF rec.kind = "string" THEN "string" ELSE "comment",
         start |-> rec.from - opener,
         stop |-> rec.from + Len(rec.inner) - 1 + closer]

\* C27 (as claimed). The QA checker scans like the scanner: on every text
\* _mask_java_skeleton finds the same strings and comments, in the same
\* places, as the scan of translate.
C27_QaScansAlike ==
    \A w \in Workers :
        pc[w] = "scanned" =>
            [q \in 1..Len(SpansOf(w)) |-> Stretch(text[w], SpansOf(w)[q])]
                = QaSpansFrom(text[w], 1)

\* ================================ string_translator.py: placeholder masking

\* Longest text given to mask_placeholders, in pieces.
MaxPieces == 3

DigitChars == {"0", "1", "2", "3", "4", "5", "6", "7", "8", "9"}

\* The first position >= k whose character is not in S.
RECURSIVE SkipWhile(_, _, _)
SkipWhile(t, k, S) ==
    IF k <= Len(t) /\ t[k] \in S THEN SkipWhile(t, k + 1, S) ELSE k

\* _FMT_RE  %(\d+\$)?[0-9.\-+]*[sdfx]  at position k: the position of the
\* match's last character, 0 when there is no match.
FmtEnd(t, k) ==
    LET n == Len(t)
        d == SkipWhile(t, k + 1, DigitChars)
        convFrom(p) ==
            LET q == SkipWhile(t, p, DigitChars \cup {".", "-", "+"})
            IN  IF q <= n /\ t[q] \in {"s", "d", "f", "x"} THEN q ELSE 0
        withIndex == IF d > k + 1 /\ d <= n /\ t[d] = "$" THEN convFrom(d + 1) ELSE 0
    IN  IF t[k] # "%" THEN 0
        ELSE IF withIndex # 0 THEN withIndex
        ELSE convFrom(k + 1)

\* _BRACE_INDEX_RE  \{[0-9]+\}
BraceEnd(t, k) ==
    LET d == SkipWhile(t, k + 1, DigitChars)
    IN  IF t[k] = "{" /\ d > k + 1 /\ d <= Len(t) /\ t[d] = "}" THEN d ELSE 0

\* _DOLLAR_VAR_RE  \$\{[^}]+\}
DollarEnd(t, k) ==
    LET n == Len(t)
        e == IF k + 2 <= n THEN SkipWhile(t, k + 2, {t[q] : q \in 1..n} \ {"}"}) ELSE n + 1
    IN  IF t[k] = "$" /\ k + 1 <= n /\ t[k + 1] = "{" /\ e > k + 2 /\ e <= n THEN e ELSE 0

\* _ESCAPES_RE  \\[ntr\"']
EscapeEnd(t, k) ==
    IF t[k] = BS /\ k + 1 <= Len(t) /\ t[k + 1] \in {"n", "t", "r", DQ, SQ}
    THEN k + 1 ELSE 0

\* _PLACEHOLDER_PATTERN at position k: the alternatives in their order.
MatchEnd(t, k) ==
    IF FmtEnd(t, k) # 0 THEN FmtEnd(t, k)
    ELSE IF BraceEnd(t, k) # 0 THEN BraceEnd(t, k)
    ELSE IF DollarEnd(t, k) # 0 THEN DollarEnd(t, k)
    ELSE EscapeEnd(t, k)

\* f"__PH_{counter}__"
PhKey(counter) == <<"_", "_", "P", "H", "_">> \o Digits(counter) \o <<"_", "_">>

\* _PLACEHOLDER_PATTERN.sub(repl, text) from position k on: every match, left
\* to right, is replaced by the next key and recorded in the mapping.
RECURSIVE MaskFrom(_, _, _, _)
MaskFrom(t, k, out, map) ==
    IF k > Len(t) THEN [masked |-> out, mapping |-> map]
    ELSE IF MatchEnd(t, k) # 0
    THEN MaskFrom(t, MatchEnd(t, k) + 1, out \o PhKey(Len(map)),
                  Append(map, <<PhKey(Len(map)), SubSeq(t, k, MatchEnd(t, k))>>))
    ELSE MaskFrom(t, k + 1, Append(out, t[k]), map)

MaskPlaceholders(t) == MaskFrom(t, 1, <<>>, <<>>)

\* str.replace(key, original): every occurrence, left to right, not overlapping.
RECURSIVE Replace(_, _, _)
Replace(t, key, original) ==
    IF Len(t) < Len(key) THEN t
    ELSE IF SubSeq(t, 1, Len(key)) = key
    THEN original \o Replace(SubSeq(t, Len(key) + 1, Len(t)), key, original)
    ELSE <<Head(t)>> \o Replace(Tail(t), key, original)

\* unmask_placeholders: one replace per item of the mapping, in its order.
RECURSIVE UnmaskPlaceholders(_, _)
UnmaskPlaceholders(t, map) ==
    IF map = <<>> THEN t
    ELSE UnmaskPlaceholders(Replace(t, Head(map)[1], Head(map)[2]), Tail(map))

\* The pieces the texts given to mask_placeholders are made of: placeholders
\* of each kind, plain text, fragments of placeholders, and texts shaped like
\* the keys.
MaskPieces ==
    {<<"%", "s">>, <<"%", "1", "$", "d">>, <<"{", "0", "}">>, <<"$", "{", "a", "}">>,
     <<BS, "n">>, <<"a">>, <<" ">>, <<"%">>, <<"$", "{">>, <<"}">>, PhKey(0), PhKey(1)}

RECURSIVE Concat(_)
Concat(ss) == IF ss = <<>> THEN <<>> ELSE Head(ss) \o Concat(Tail(ss))

MaskInputs == {Concat(ps) : ps \in SeqsUpTo(MaskPieces, MaxPieces)}

\* The state of the variables of the run while a unit is checked on its own.
RunIdle ==
    /\ pc = <<>> /\ cur = <<>> /\ text = <<>> /\ i = <<>> /\ mode = <<>>
    /\ result = <<>> /\ buf = <<>> /\ resp = <<>> /\ todo = <<>> /\ after = <<>>
    /\ tmp = <<>> /\ cache = <<>> /\ glossary = <<>> /\ stats = NoStats
    /\ queue = <<>> /\ src = <<>> /\ dst = <<>> /\ dirs = {} /\ main = "off"
    /\ answers = {}
    /\ open = <<>> /\ spans = <<>> /\ charPos = <<>> /\ issued = <<>> /\ flog = <<>>
    /\ run = 0 /\ prev = <<>> /\ ended = "none" /\ gate = "off"

runVars == <<workerVars, sharedVars, fsVars, histVars, runsVars, qaVars>>

InitMask ==
    /\ mphase = "text" /\ mtext \in MaskInputs
    /\ masked = <<>> /\ mapping = <<>> /\ unmasked = <<>>
    /\ StrIdle /\ QaIdle /\ RunIdle

\* masked, mapping = mask_placeholders(text)
DoMask ==
    /\ mphase = "text"
    /\ masked' = MaskPlaceholders(mtext).masked
    /\ mapping' = MaskPlaceholders(mtext).mapping
    /\ mphase' = "masked"
    /\ UNCHANGED <<mtext, unmasked, strVars, runVars>>

\* unmask_placeholders(masked, mapping)
DoUnmask ==
    /\ mphase = "masked"
    /\ unmasked' = UnmaskPlaceholders(masked, mapping)
    /\ mphase' = "unmasked"
    /\ UNCHANGED <<mtext, masked, mapping, strVars, runVars>>

NextMask == DoMask \/ DoUnmask

SpecMask == InitMask /\ [][NextMask]_vars

\* C2. Mask round-trip (as claimed): unmasking the masked text with its
\* mapping gives back the text, for every text.
C2_MaskRoundTrip == mphase = "unmasked" => unmasked = mtext

\* =========================== StringTranslator.translate_string on its own

\* The number of translate_string calls made.
MaxCalls == 3

\* The characters is_i18n_key_like allows.
KeyChars ==
    {"a", "b", "c", "d", "e", "f", "g", "h", "i", "j", "k", "l", "m", "n", "o", "p",
     "q", "r", "s", "t", "u", "v", "w", "x", "y", "z",
     "A", "B", "C", "D", "E", "F", "G", "H", "I", "J", "K", "L", "M", "N", "O", "P",
     "Q", "R", "S", "T", "U", "V", "W", "X", "Y", "Z",
     ".", "_", "-"} \cup DigitChars

Has(s, c) == \E q \in 1..Len(s) : s[q] = c

IsI18nKeyLike(s) ==
    LET t == Strip(s) IN
    /\ t # <<>>
    /\ ~Has(t, " ")
    /\ \A q \in 1..Len(t) : t[q] \in KeyChars

LooksLikePathOrTechnical(s) ==
    LET t == Strip(s) IN
    /\ t # <<>>
    /\ (Has(t, BS) \/ Has(t, SL)) /\ ~Has(t, " ")

IsHumanVisibleString(s) ==
    LET t == Strip(s) IN
    /\ t # <<>>
    /\ ~IsI18nKeyLike(t)
    /\ ~LooksLikePathOrTechnical(t)

\* The strings translate_string is called with: empty, blank, a key-like
\* word, prose, prose with a placeholder, a path, prose with blanks around
\* it, prose in quotes, and a ${...} placeholder whose name is shaped like
\* a key, followed by a second placeholder.
StrInputs ==
    {<<>>, <<" ">>, <<"a">>, <<"a", " ", "b">>, <<"a", " ", "%", "s">>, <<"a", SL, "b">>,
     <<" ", "a", " ", "b">>, <<DQ, "a", " ", "b", DQ>>,
     <<"$", "{">> \o PhKey(1) \o <<"}", "%", "s">>}

\* What the backend may answer a request holding the text m with: m itself,
\* other prose, m wrapped in quotes, nothing.
StrBackendTexts(m) == {m, <<"b", " ", "c">>, <<DQ>> \o m \o <<DQ>>, <<>>}

InitStr ==
    /\ variant \in {"core", "root"}
    /\ client \in {"llama", "ollama"}
    /\ sphase = "idle" /\ sarg = <<>> /\ sreq = <<>> /\ smap = <<>>
    /\ scache = <<>> /\ sstats = NoStats /\ sglossary = <<>> /\ slog = <<>>
    /\ MaskIdle /\ QaIdle /\ RunIdle

\* The call returns ret with no backend call.
StrReturnNow(s, ret, how) ==
    /\ slog' = Append(slog, [s |-> s, how |-> how, ret |-> ret, resp |-> <<>>,
                              body |-> "none", logged |-> FALSE])
    /\ UNCHANGED <<sphase, sarg, sreq, smap, sstats, sglossary>>

\* translate_string(s) up to the backend call.
StrCall ==
    /\ sphase = "idle" /\ Len(slog) < MaxCalls
    /\ \E s \in StrInputs :
        IF variant = "core" /\ s = <<>>
        THEN StrReturnNow(s, s, "empty") /\ UNCHANGED scache
        ELSE IF s \in DOMAIN scache
        THEN StrReturnNow(s, scache[s], "cached") /\ UNCHANGED scache
        ELSE IF variant = "root" /\ ~IsHumanVisibleString(s)
        THEN StrReturnNow(s, s, "invisible") /\ scache' = CacheAfter(scache, s, s)
        ELSE /\ sphase' = "llm"
             /\ sarg' = s
             /\ sreq' = IF variant = "root" THEN MaskPlaceholders(s).masked ELSE s
             /\ smap' = IF variant = "root" THEN MaskPlaceholders(s).mapping ELSE <<>>
             /\ UNCHANGED <<scache, sstats, sglossary, slog>>
    /\ UNCHANGED <<variant, client, maskVars, runVars>>

\* StrBackendFail with the string cached as its own translation.
StrBackendFailCaches ==
    /\ sphase = "llm"
    /\ sphase' = "idle"
    /\ scache' = CacheAfter(scache, sarg, sarg)
    /\ slog' = Append(slog, [s |-> sarg, how |-> "raised", ret |-> <<>>, resp |-> <<>>,
                              body |-> "none", logged |-> FALSE])
    /\ UNCHANGED <<variant, client, sarg, sreq, smap, sstats, sglossary, maskVars, runVars>>

\* The call in progress ends with the error client.translate raised:
\* nothing is cached, the error goes to the caller. body tells what the
\* response body was like.
StrRaised(body) ==
    /\ slog' = Append(slog, [s |-> sarg, how |-> "raised", ret |-> <<>>, resp |-> <<>>,
                              body |-> body, logged |-> FALSE])
    /\ UNCHANGED <<scache, sstats, sglossary>>

StrReturnedLogBreaks(r, body) ==
    LET t == IF variant = "root"
             THEN UnmaskPlaceholders(StripQuotes(r), smap)
             ELSE StripQuotes(r)
    IN  /\ sstats' = [sstats EXCEPT
              !.llm_time_seconds = @ + 1,
              !.total_input_chars = IF variant = "root" THEN @ + Len(sarg) ELSE @,
              !.total_output_chars = IF variant = "root" THEN @ + Len(r) ELSE @,
              !.total_words = @ + WordCount(r)]
        /\ \E logged \in BOOLEAN :
              /\ sglossary' = IF logged THEN Append(sglossary, GlossaryLine(sarg, t))
                              ELSE sglossary
              /\ scache' = IF logged THEN CacheAfter(scache, sarg, t) ELSE scache
              /\ slog' = Append(slog, [s |-> sarg,
                                       how |-> IF logged THEN "translated" ELSE "raised",
                                       ret |-> IF logged THEN t ELSE <<>>,
                                       resp |-> r, body |-> body, logged |-> logged])

\* client.translate has returned r: statistics, strip, quotes, unmask,
\* cache, glossary, return. logged tells whether the glossary line was
\* appended: _log_glossary_pair swallows every exception of open and write.
StrReturned(r, body) ==
    LET t == IF variant = "root"
             THEN UnmaskPlaceholders(StripQuotes(r), smap)
             ELSE StripQuotes(r)
    IN  /\ sstats' = [sstats EXCEPT
              !.llm_time_seconds = @ + 1,
              !.total_input_chars = IF variant = "root" THEN @ + Len(sarg) ELSE @,
              !.total_output_chars = IF variant = "root" THEN @ + Len(r) ELSE @,
              !.total_words = @ + WordCount(r)]
        /\ scache' = CacheAfter(scache, sarg, t)
        /\ \E logged \in BOOLEAN :
              /\ sglossary' = IF logged THEN Append(sglossary, GlossaryLine(sarg, t))
                              ELSE sglossary
              /\ slog' = Append(slog, [s |-> sarg, how |-> "translated", ret |-> t,
                                       resp |-> r, body |-> body, logged |-> logged])

\* The request times out or the status is not 200: client.translate raises.
StrBackendFail ==
    /\ sphase = "llm"
    /\ sphase' = "idle"
    /\ StrRaised("none")
    /\ UNCHANGED <<variant, client, sarg, sreq, smap, maskVars, runVars>>

\* Status 200 and a body with the content r.
StrBackendReturn ==
    /\ sphase = "llm"
    /\ \E r \in StrBackendTexts(sreq) : StrReturned(r, "content")
    /\ sphase' = "idle"
    /\ UNCHANGED <<variant, client, sarg, sreq, smap, maskVars, runVars>>

\* LlamaCppClient.translate on status 200 and a JSON body:
\* data["choices"][0]["message"]["content"] inside try, RuntimeError when
\* the lookup fails.
LlamaContent(hasField, r) ==
    [raised |-> ~hasField, content |-> IF hasField THEN r ELSE <<>>]

\* OllamaClient.translate on status 200 and a JSON body:
\* data.get("response", "").
OllamaContent(hasField, r) ==
    [raised |-> FALSE, content |-> IF hasField THEN r ELSE <<>>]

\* Status 200 and a JSON body without the content field.
StrBackendMalformed ==
    /\ sphase = "llm"
    /\ LET got == IF client = "llama" THEN LlamaContent(FALSE, <<>>)
                  ELSE OllamaContent(FALSE, <<>>)
       IN  IF got.raised THEN StrRaised("malformed")
           ELSE StrReturned(got.content, "malformed")
    /\ sphase' = "idle"
    /\ UNCHANGED <<variant, client, sarg, sreq, smap, maskVars, runVars>>

\* translate_buffer around translate_string: what is put in the place of
\* the span's content, the original when the call raised.
TranslateBuffer(rec) == IF rec.how = "raised" THEN rec.s ELSE rec.ret

NextStr == StrCall \/ StrBackendFail \/ StrBackendReturn \/ StrBackendMalformed

SpecStr == InitStr /\ [][NextStr]_vars

\* A call that sent a request to the backend.
CalledBackend(rec) == rec.how \in {"translated", "raised"}

NotVisible(s) ==
    \/ Strip(s) = <<>>
    \/ \A q \in 1..Len(s) : s[q] \in KeyChars
    \/ (Has(s, SL) \/ Has(s, BS)) /\ ~Has(s, " ")

\* C16 (as claimed). A call with a string that is empty or white space only,
\* key-like or path-like sends nothing to the backend, returns the string
\* unchanged and leaves the identity mapping in the cache; a call with any
\* other string that is not yet cached is sent to the backend.
C16_VisibilityHeuristic ==
    /\ \A j \in 1..Len(slog) :
          IF NotVisible(slog[j].s)
          THEN /\ ~CalledBackend(slog[j])
               /\ slog[j].ret = slog[j].s
               /\ slog[j].s \in DOMAIN scache /\ scache[slog[j].s] = slog[j].s
          ELSE slog[j].how \in {"translated", "raised", "cached"}
    /\ sphase = "llm" => ~NotVisible(sarg)

\* C17 (as claimed). The text placed in a backend request holds none of the
\* recognised placeholders.
C17_NoPlaceholderInRequest ==
    sphase = "llm" => MaskPlaceholders(sreq).mapping = <<>>

\* key occurs in t.
Occurs(t, key) ==
    \E q \in 1..(Len(t) - Len(key) + 1) : SubSeq(t, q, q + Len(key) - 1) = key

\* t with every token of the mapping exchanged, where it stands, for the
\* placeholder it was issued for.
RECURSIVE Restore(_, _)
Restore(t, map) ==
    IF t = <<>> THEN <<>>
    ELSE LET hits == {q \in 1..Len(map) :
                         /\ Len(map[q][1]) <= Len(t)
                         /\ SubSeq(t, 1, Len(map[q][1])) = map[q][1]}
         IN  IF hits # {}
             THEN LET q == CHOOSE h \in hits : TRUE
                  IN  map[q][2] \o Restore(SubSeq(t, Len(map[q][1]) + 1, Len(t)), map)
             ELSE <<Head(t)>> \o Restore(Tail(t), map)

\* C18 (as claimed). When the backend's answer holds every token of the
\* request, the result of translate_string (the variant that masks) is the
\* answer with each token exchanged for its placeholder where the token
\* stands, and no token is left in the result.
C18_PlaceholdersRestored ==
    variant = "root" =>
        \A j \in 1..Len(slog) :
            LET m == MaskPlaceholders(slog[j].s).mapping
                t == StripQuotes(slog[j].resp)
            IN  (/\ slog[j].how = "translated"
                 /\ m # <<>>
                 /\ \A q \in 1..Len(m) : Occurs(t, m[q][1]))
                => /\ slog[j].ret = Restore(t, m)
                   /\ \A q \in 1..Len(m) : ~Occurs(slog[j].ret, m[q][1])

\* C19. A call whose backend request failed leaves no cache entry and no
\* glossary line and ends with the failure: every cache entry and every
\* glossary line belongs to a call that returned, and the next call with
\* the string of a failed call goes to the backend again.
C19_FailureNotCached ==
    /\ \A s \in DOMAIN scache :
          \E j \in 1..Len(slog) :
              /\ slog[j].s = s /\ slog[j].ret = scache[s]
              /\ slog[j].how \in {"translated", "invisible"}
    /\ \A g \in 1..Len(sglossary) :
          \E j \in 1..Len(slog) :
              /\ slog[j].how = "translated"
              /\ sglossary[g] = GlossaryLine(slog[j].s, slog[j].ret)
    /\ Len(sglossary) <= Cardinality({j \in 1..Len(slog) : slog[j].how = "translated"})
    /\ \A j, k \in 1..Len(slog) :
          (/\ j < k /\ slog[j].how = "raised" /\ slog[k].s = slog[j].s
           /\ \A l \in (j + 1)..(k - 1) : slog[l].s # slog[j].s)
          => CalledBackend(slog[k])

\* C19 witness: the backend request for a string failed, and a later call
\* with the same string went to the backend and was translated.
C19_Witness ==
    \E j, k \in 1..Len(slog) :
        /\ j < k /\ slog[j].how = "raised" /\ slog[k].s = slog[j].s
        /\ slog[k].how = "translated"
        /\ slog[j].s \in DOMAIN scache

\* C30 (as claimed). A response with status 200 whose body lacks the
\* content field is a failure of that call: the client raises, the failed
\* answer is not cached, and the span keeps its original content.
C30_MalformedIsFailure ==
    \A j \in 1..Len(slog) :
        slog[j].body = "malformed" =>
            /\ slog[j].how = "raised"
            /\ TranslateBuffer(slog[j]) = slog[j].s
            /\ slog[j].s \in DOMAIN scache =>
                  \E k \in 1..Len(slog) : slog[k].s = slog[j].s /\ slog[k].body = "content"

\* ============================== qa_report.py: the checks and their status

BANNED_SUBSTRINGS ==
    <<<<"O", "p", "e", "n", "A", "I">>,
      <<"C", "h", "a", "t", "G", "P", "T">>,
      <<"L", "L", "M">>,
      <<"A", "P", "I">>,
      <<"K", "e", "y", " ", "i", "m", "p", "r", "o", "v", "e", "m", "e", "n", "t", "s">>,
      <<"T", "h", "e", " ", "c", "o", "d", "e", " ", "n", "o", "w">>,
      <<"E", "r", "r", "o", "r", " ", "g", "e", "n", "e", "r", "a", "t", "i", "n", "g", " ", "t", "e", "x", "t">>,
      <<"I", "n", " ", "t", "h", "i", "s", " ", "e", "x", "a", "m", "p", "l", "e">>,
      <<"B", "e", "l", "o", "w", " ", "i", "s">>>>

CRITICAL_ISSUES == {"empty_translation", "banned_token", "structure_changed"}

\* `token in text`
Contains(t, token) ==
    \E q \in 1..(Len(t) - Len(token) + 1) : SubSeq(t, q, q + Len(token) - 1) = token

\* _check_banned: one banned_token issue per token of the list found.
RECURSIVE CheckBannedFrom(_, _)
CheckBannedFrom(t, k) ==
    IF k > Len(BANNED_SUBSTRINGS) THEN <<>>
    ELSE (IF Contains(t, BANNED_SUBSTRINGS[k]) THEN <<"banned_token">> ELSE <<>>)
         \o CheckBannedFrom(t, k + 1)

CheckBanned(t) == CheckBannedFrom(t, 1)

\* _sentence_count: re.split(r"[.!?]+", s), then the parts that are not
\* blank. part is TRUE when the part being read holds a character that is
\* not white space.
RECURSIVE SentencesFrom(_, _, _)
SentencesFrom(s, k, part) ==
    IF k > Len(s) THEN (IF part THEN 1 ELSE 0)
    ELSE IF s[k] \in {".", "!", "?"}
    THEN (IF part THEN 1 ELSE 0) + SentencesFrom(s, k + 1, FALSE)
    ELSE SentencesFrom(s, k + 1, part \/ s[k] \notin Whitespace)

SentenceCount(s) == SentencesFrom(s, 1, FALSE)

\* Mutant of StatusOf: any issue at all gives warn.
StatusOfWarnsOnly(issues) ==
    IF issues # <<>> THEN "warn" ELSE "ok"

\* status = "ok"; fail if any issue is critical; elif issues: warn.
StatusOf(issues) ==
    IF \E q \in 1..Len(issues) : issues[q] \in CRITICAL_ISSUES THEN "fail"
    ELSE IF issues # <<>> THEN "warn"
    ELSE "ok"

\* The issues qa_plain_string collects, in its order.
PlainIssues(orig, translated) ==
    (IF Strip(translated) = <<>> THEN <<"empty_translation">> ELSE <<>>)
    \o CheckBanned(translated)
    \o (IF SentenceCount(translated) > SentenceCount(orig) + 2
        THEN <<"too_many_sentences">> ELSE <<>>)

\* The issues qa_code_java collects, in its order.
JavaIssues(orig, translated) ==
    LET o == Skeleton(orig)
        t == Skeleton(translated)
    IN  (IF Strip(translated) = <<>> THEN <<"empty_translation">> ELSE <<>>)
        \o (IF o.sk # t.sk THEN <<"structure_changed">> ELSE <<>>)
        \o (IF o.strs # t.strs THEN <<"string_count_mismatch">> ELSE <<>>)
        \o (IF o.cmts # t.cmts THEN <<"comment_count_mismatch">> ELSE <<>>)
        \o CheckBanned(translated)

\* The strings qa_plain_string is called with: a sentence, three sentences,
\* as original; and as translation those, nothing, a blank, four and five
\* sentences, and texts with one and with two banned tokens.
PlainOrigs == {<<"a">>, <<"a", ".", "a", "!", "a">>}

PlainTranslations ==
    PlainOrigs \cup
    {<<>>, <<" ">>, <<"a", ".", "a", ".", "a", "?", "a">>,
     <<"a", ".", " ", ".", "a", ".", "a", ".", "a", ".", "a">>,
     <<"L", "L", "M">>, <<"A", "P", "I", " ", "L", "L", "M", ".">>}

\* The texts qa_code_java is called with: a string literal, another, a line
\* comment, a block comment, two strings, a char literal, another, code
\* that reads like a marker, a string with a banned token, a blank, nothing.
JavaTexts ==
    {<<DQ, "a", DQ>>, <<DQ, "b", DQ>>, <<SL, SL, "a", NL>>, <<SL, ST, "a", ST, SL>>,
     <<DQ, "a", DQ, DQ, "a", DQ>>, <<SQ, "a", SQ>>, <<SQ, "b", SQ>>,
     Marker(<<"S", "T", "R">>, 0), <<DQ, "L", "L", "M", DQ>>, <<" ">>, <<>>}

InitQa ==
    /\ qphase = "input"
    /\ \/ qkind = "plain" /\ qorig \in PlainOrigs /\ qtr \in PlainTranslations
       \/ qkind = "java" /\ qorig \in JavaTexts /\ qtr \in JavaTexts
    /\ qissues = <<>> /\ qstatus = "none"
    /\ MaskIdle /\ StrIdle /\ RunIdle

\* qa_plain_string(orig, translated, ...)
QaPlainString ==
    /\ qphase = "input" /\ qkind = "plain"
    /\ qissues' = PlainIssues(qorig, qtr)
    /\ qstatus' = StatusOf(PlainIssues(qorig, qtr))
    /\ qphase' = "done"
    /\ UNCHANGED <<qkind, qorig, qtr, maskVars, strVars, workerVars, sharedVars, fsVars,
                   histVars, runsVars>>

\* qa_code_java(orig, translated)
QaCodeJava ==
    /\ qphase = "input" /\ qkind = "java"
    /\ qissues' = JavaIssues(qorig, qtr)
    /\ qstatus' = StatusOf(JavaIssues(qorig, qtr))
    /\ qphase' = "done"
    /\ UNCHANGED <<qkind, qorig, qtr, maskVars, strVars, workerVars, sharedVars, fsVars,
                   histVars, runsVars>>

NextQa == QaPlainString \/ QaCodeJava

SpecQa == InitQa /\ [][NextQa]_vars

\* The issue codes named critical, and the others.
CriticalCodes == {"empty_translation", "banned_token", "structure_changed"}
OtherCodes == {"string_count_mismatch", "comment_count_mismatch", "too_many_sentences"}

IssueSet == {qissues[q] : q \in 1..Len(qissues)}

\* C22. The status of a finished check is fail exactly when an issue with a
\* critical code is present, warn exactly when issues are present and all
\* of them are count mismatches or too many sentences, ok exactly when
\* there is no issue.
C22_StatusClassification ==
    qphase = "done" =>
        /\ IssueSet \subseteq CriticalCodes \cup OtherCodes
        /\ qstatus = "fail" <=> IssueSet \cap CriticalCodes # {}
        /\ qstatus = "warn" <=> (IssueSet # {} /\ IssueSet \subseteq OtherCodes)
        /\ qstatus = "ok" <=> IssueSet = {}
        /\ qstatus \in {"fail", "warn", "ok"}

\* C22 witness: a finished check with a critical issue next to a count
\* mismatch.
C22_Witness ==
    /\ qphase = "done" /\ qstatus = "fail"
    /\ "string_count_mismatch" \in IssueSet /\ "banned_token" \in IssueSet

\* The characters of t that lie in no string and no comment, in their order.
CodeOf(t) ==
    LET sp == QaSpansFrom(t, 1)
        inSpan(k) == \E q \in 1..Len(sp) : sp[q].start <= k /\ k <= sp[q].stop
        F[k \in 0..Len(t)] ==
            IF k = 0 THEN <<>>
            ELSE IF inSpan(k) THEN F[k - 1] ELSE Append(F[k - 1], t[k])
    IN  F[Len(t)]

\* C28 (as claimed). Skeleton equality proves code is unaltered: when
\* qa_code_java finds the skeletons of the two texts equal, the characters
\* outside strings and comments, char literals among them, are the same in
\* both texts and in the same order.
C28_SkeletonProvesCode ==
    (qphase = "done" /\ qkind = "java" /\ "structure_changed" \notin IssueSet)
        => CodeOf(qorig) = CodeOf(qtr)

\* ================= translate_project.main: the pool and the file router

\* Worker threads of the pool (--workers).
NumWorkers == 2

\* Files iter_project_files found.
NumFiles == 2

\* The kinds of file in the project: a .java file with a string and a line
\* comment of the same content, a .java file whose destination exists from
\* an earlier run, a file of another extension with and without an existing
\* destination, a .java file of white space, and a .java file that is a char
\* literal.
FileKinds ==
    {[text |-> <<DQ, "a", DQ, SL, SL, "a">>, ext |-> ".java", exists |-> FALSE],
     [text |-> <<DQ, "a", DQ>>, ext |-> ".java", exists |-> TRUE],
     [text |-> <<DQ, "a", DQ>>, ext |-> ".txt", exists |-> FALSE],
     [text |-> <<DQ, "a", DQ>>, ext |-> ".txt", exists |-> TRUE],
     [text |-> <<" ">>, ext |-> ".java", exists |-> FALSE],
     [text |-> <<SQ, "a", SQ>>, ext |-> ".java", exists |-> FALSE]}

\* What an earlier run left at the existing destination of a .java file (a
\* copied file's destination holds the text of its source).
OldText == <<DQ, "b", DQ>>

\* translators_by_ext.get(ext) is not None
HasTranslator(f) == src[f].ext = ".java"

\* What a failed write of t leaves at a destination that held old: the
\* destination untouched (the open failed) or a file holding a proper prefix
\* of t (the open truncated it, the write stopped before the last character).
WriteFailures(old, t) ==
    {old} \cup {[exists |-> TRUE, text |-> SubSeq(t, 1, Len(t) - 1), whole |-> FALSE] :
                   k \in 1..Len(t)}

\* The state when the pool starts: Stats(), an empty cache, every file
\* queued. (main builds its JavaTranslator with a `stats` keyword that the
\* dataclass does not declare, translate_project.py:193-197; the run is
\* modelled from the pool on, with a JavaTranslator of its two declared
\* fields.)
InitPool(n) ==
    /\ \E kinds \in [1..NumFiles -> FileKinds] :
        /\ src = [f \in 1..NumFiles |-> [text |-> kinds[f].text, ext |-> kinds[f].ext]]
        /\ dst = [f \in 1..NumFiles |->
                     [exists |-> kinds[f].exists, whole |-> TRUE,
                      text |-> IF ~kinds[f].exists THEN <<>>
                               ELSE IF kinds[f].ext = ".java" THEN OldText
                               ELSE kinds[f].text]]
        /\ dirs = {f \in 1..NumFiles : kinds[f].exists}
    /\ queue = [f \in 1..NumFiles |-> f]
    /\ main = "running"
    /\ answers = {<<"b">>}
    /\ pc = [w \in 1..n |-> "idle"]
    /\ cur = [w \in 1..n |-> 0]
    /\ text = [w \in 1..n |-> <<>>]
    /\ i = [w \in 1..n |-> 1]
    /\ mode = [w \in 1..n |-> "NORMAL"]
    /\ result = [w \in 1..n |-> <<>>]
    /\ buf = [w \in 1..n |-> <<>>]
    /\ resp = [w \in 1..n |-> <<>>]
    /\ todo = [w \in 1..n |-> <<>>]
    /\ after = [w \in 1..n |-> "ret"]
    /\ tmp = [w \in 1..n |-> 0]
    /\ open = [w \in 1..n |-> 0]
    /\ cache = <<>> /\ glossary = <<>> /\ stats = NoStats
    /\ spans = [f \in 1..NumFiles |-> <<>>]
    /\ charPos = [f \in 1..NumFiles |-> {}]
    /\ issued = <<>>
    /\ flog = [f \in 1..NumFiles |-> NoLog]
    /\ run = 1 /\ prev = dst /\ ended = "none" /\ gate = "not_run"
    /\ MaskIdle /\ StrIdle /\ QaIdle

InitRun == InitPool(NumWorkers)

\* The file's handler has ended with `how`; the statements in `stmts` are
\* still to run before it returns.
Finish(w, how, failure, stmts) ==
    /\ flog' = [flog EXCEPT ![cur[w]].outcome = how, ![cur[w]].failure = failure]
    /\ todo' = [todo EXCEPT ![w] = stmts]
    /\ after' = [after EXCEPT ![w] = "ret"]
    /\ pc' = [pc EXCEPT ![w] = IF stmts = <<>> THEN "ret" ELSE "inc"]

\* A worker thread takes the next file; route_and_process_file counts it
\* (iter_project_files yields regular files only, so is_file() holds).
TakeFile(w) ==
    /\ pc[w] = "idle" /\ queue # <<>>
    /\ cur' = [cur EXCEPT ![w] = Head(queue)]
    /\ queue' = Tail(queue)
    /\ todo' = [todo EXCEPT ![w] = <<Inc("total_files", 1)>>]
    /\ after' = [after EXCEPT ![w] = "mkdir"]
    /\ pc' = [pc EXCEPT ![w] = "inc"]
    /\ UNCHANGED <<unitVars, text, i, mode, result, buf, resp, tmp, sharedVars,
                   src, dst, dirs, main, answers, histVars>>

MkdirSkipped(w) ==
    /\ pc[w] = "mkdir"
    /\ LET f == cur[w] IN
          /\ UNCHANGED dirs
          /\ IF dst[f].exists /\ HasTranslator(f)
             THEN Finish(w, "resume", "none", <<Inc("skipped_files", 1)>>)
             ELSE /\ pc' = [pc EXCEPT ![w] = IF HasTranslator(f) THEN "read" ELSE "copy"]
                  /\ UNCHANGED <<flog, todo, after>>
    /\ UNCHANGED <<unitVars, cur, text, i, mode, result, buf, resp, tmp, sharedVars,
                   queue, src, dst, main, answers, open, spans, charPos, issued>>

\* dst_path.parent.mkdir, outside every try: when it raises, the error
\* leaves route_and_process_file. Otherwise the resume check and the choice
\* between copying and translating.
Mkdir(w) ==
    /\ pc[w] = "mkdir"
    /\ LET f == cur[w] IN
       \/ /\ f \notin dirs
          /\ Finish(w, "raised", "mkdir", <<>>)
          /\ UNCHANGED dirs
       \/ /\ dirs' = dirs \cup {f}
          /\ IF dst[f].exists /\ HasTranslator(f)
             THEN Finish(w, "resume", "none", <<Inc("skipped_files", 1)>>)
             ELSE /\ pc' = [pc EXCEPT ![w] = IF HasTranslator(f) THEN "read" ELSE "copy"]
                  /\ UNCHANGED <<flog, todo, after>>
    /\ UNCHANGED <<unitVars, cur, text, i, mode, result, buf, resp, tmp, sharedVars,
                   queue, src, dst, main, answers, open, spans, charPos, issued>>

\* No translator for the extension: shutil.copy2.
Copy(w) ==
    /\ pc[w] = "copy"
    /\ LET f == cur[w] IN
       \/ /\ dst' = [dst EXCEPT ![f] = [exists |-> TRUE, text |-> src[f].text, whole |-> TRUE]]
          /\ Finish(w, "copied", "none", <<Inc("skipped_files", 1)>>)
       \/ /\ \E left \in WriteFailures(dst[f], src[f].text) : dst' = [dst EXCEPT ![f] = left]
          /\ Finish(w, "error", "copy", ErrorTodo("Copy", f))
    /\ UNCHANGED <<unitVars, cur, text, i, mode, result, buf, resp, tmp, sharedVars,
                   queue, src, dirs, main, answers, open, spans, charPos, issued>>

\* src_path.read_text, then the white-space test.
Read(w) ==
    /\ pc[w] = "read"
    /\ LET f == cur[w] IN
       \/ /\ Finish(w, "error", "read", ErrorTodo("Read", f))
          /\ UNCHANGED text
       \/ /\ text' = [text EXCEPT ![w] = src[f].text]
          /\ pc' = [pc EXCEPT ![w] = IF Strip(src[f].text) = <<>> THEN "wempty" ELSE "scan"]
          /\ UNCHANGED <<flog, todo, after>>
    /\ UNCHANGED <<unitVars, cur, i, mode, result, buf, resp, tmp, sharedVars,
                   fsVars, open, spans, charPos, issued>>

\* A file of white space is written as it is.
WriteEmpty(w) ==
    /\ pc[w] = "wempty"
    /\ LET f == cur[w] IN
       \/ /\ dst' = [dst EXCEPT ![f] = [exists |-> TRUE, text |-> text[w], whole |-> TRUE]]
          /\ Finish(w, "copied_empty", "none", <<Inc("skipped_files", 1)>>)
       \/ /\ \E left \in WriteFailures(dst[f], text[w]) : dst' = [dst EXCEPT ![f] = left]
          /\ Finish(w, "error", "write_empty", ErrorTodo("Write empty", f))
    /\ UNCHANGED <<unitVars, cur, text, i, mode, result, buf, resp, tmp, sharedVars,
                   queue, src, dirs, main, answers, open, spans, charPos, issued>>

\* translator(text) has returned (JavaTranslator.translate raises nothing:
\* translate_buffer catches every error): dst_path.write_text(translated).
Write(w) ==
    /\ pc[w] = "scanned"
    /\ LET f == cur[w] IN
       \/ /\ dst' = [dst EXCEPT ![f] = [exists |-> TRUE, text |-> result[w], whole |-> TRUE]]
          /\ Finish(w, "translated", "none", <<Inc("translated_files", 1)>>)
       \/ /\ \E left \in WriteFailures(dst[f], result[w]) : dst' = [dst EXCEPT ![f] = left]
          /\ Finish(w, "error", "write", ErrorTodo("Write", f))
    /\ UNCHANGED <<unitVars, cur, text, i, mode, result, buf, resp, tmp, sharedVars,
                   queue, src, dirs, main, answers, open, spans, charPos, issued>>

\* route_and_process_file is left (by return or by the error of mkdir); the
\* worker thread is free again.
Return(w) ==
    /\ pc[w] = "ret"
    /\ pc' = [pc EXCEPT ![w] = "idle"]
    /\ cur' = [cur EXCEPT ![w] = 0]
    /\ text' = [text EXCEPT ![w] = <<>>]
    /\ i' = [i EXCEPT ![w] = 1]
    /\ mode' = [mode EXCEPT ![w] = "NORMAL"]
    /\ result' = [result EXCEPT ![w] = <<>>]
    /\ buf' = [buf EXCEPT ![w] = <<>>]
    /\ resp' = [resp EXCEPT ![w] = <<>>]
    /\ tmp' = [tmp EXCEPT ![w] = 0]
    /\ open' = [open EXCEPT ![w] = 0]
    /\ UNCHANGED <<unitVars, todo, after, sharedVars, fsVars, spans, charPos, issued, flog>>

\* The file's future is done.
Done(f) == flog[f].outcome # "none" /\ \A w \in Workers : cur[w] # f

\* list(pool.map(worker, files)) takes the results in the order of the
\* files: the first one that holds an error is raised in main, and the
\* futures not yet started are cancelled.
MainRaise ==
    /\ main = "running"
    /\ \E f \in Files :
        /\ Done(f) /\ flog[f].outcome = "raised"
        /\ \A g \in Files : g < f => Done(g) /\ flog[g].outcome # "raised"
    /\ main' = "raised"
    /\ queue' = <<>>
    /\ flog' = [f \in Files |->
                   IF \E q \in 1..Len(queue) : queue[q] = f
                   THEN [flog[f] EXCEPT !.outcome = "cancelled"]
                   ELSE flog[f]]
    /\ UNCHANGED <<unitVars, workerVars, sharedVars, src, dst, dirs, answers,
                   open, spans, charPos, issued>>

\* Every result was taken: main goes on to the summary.
MainDone ==
    /\ main = "running"
    /\ \A f \in Files : Done(f) /\ flog[f].outcome # "raised"
    /\ main' = "done"
    /\ UNCHANGED <<unitVars, workerVars, sharedVars, queue, src, dst, dirs, answers, histVars>>

NextRun ==
    \/ \E w \in Workers : TakeFile(w)
    \/ \E w \in Workers : Mkdir(w)
    \/ \E w \in Workers : Copy(w)
    \/ \E w \in Workers : Read(w)
    \/ \E w \in Workers : WriteEmpty(w)
    \/ \E w \in Workers : ScanNormal(w)
    \/ \E w \in Workers : ScanSpan(w)
    \/ \E w \in Workers : ScanChar(w)
    \/ \E w \in Workers : ScanTail(w)
    \/ \E w \in Workers : LlmFail(w)
    \/ \E w \in Workers : LlmReturn(w)
    \/ \E w \in Workers : StatsLoad(w)
    \/ \E w \in Workers : StatsStore(w)
    \/ \E w \in Workers : CacheStore(w)
    \/ \E w \in Workers : Write(w)
    \/ \E w \in Workers : Return(w)
    \/ MainRaise
    \/ MainDone

SpecRun == InitRun /\ [][NextRun]_vars

\* ============================ a run ended or killed, and the next run

\* Runs of main on the same input and output roots.
MaxRuns == 2

\* The text the worker's next step writes to the destination, when its next
\* step is a write.
Writing(w) ==
    CASE pc[w] = "copy" -> src[cur[w]].text
      [] pc[w] = "wempty" -> text[w]
      [] OTHER -> result[w]

\* The threads of a process that is gone, or of a pool not yet at work.
NoWorkers ==
    /\ pc' = [w \in Workers |-> "idle"]
    /\ cur' = [w \in Workers |-> 0]
    /\ text' = [w \in Workers |-> <<>>]
    /\ i' = [w \in Workers |-> 1]
    /\ mode' = [w \in Workers |-> "NORMAL"]
    /\ result' = [w \in Workers |-> <<>>]
    /\ buf' = [w \in Workers |-> <<>>]
    /\ resp' = [w \in Workers |-> <<>>]
    /\ todo' = [w \in Workers |-> <<>>]
    /\ after' = [w \in Workers |-> "ret"]
    /\ tmp' = [w \in Workers |-> 0]
    /\ open' = [w \in Workers |-> 0]

\* The process is terminated while the pool is at work. A worker that was
\* about to write its destination may have written a part of it.
Kill ==
    /\ main = "running"
    /\ main' = "killed"
    /\ queue' = <<>>
    /\ \/ UNCHANGED dst
       \/ \E w \in Workers :
            /\ pc[w] \in {"copy", "wempty", "scanned"}
            /\ Writing(w) # <<>>
            /\ dst' = [dst EXCEPT ![cur[w]] =
                          [exists |-> TRUE, whole |-> FALSE,
                           text |-> SubSeq(Writing(w), 1, Len(Writing(w)) - 1)]]
    /\ NoWorkers
    /\ UNCHANGED <<unitVars, sharedVars, src, dirs, answers, spans, charPos, issued, flog>>

\* main is started again on the same roots: new Stats, a new
\* StringTranslator with an empty cache, the files of the input root.
Restart ==
    /\ main \in {"done", "raised", "killed"}
    /\ \A w \in Workers : pc[w] = "idle"
    /\ run < MaxRuns
    /\ run' = run + 1
    /\ prev' = dst
    /\ ended' = main
    /\ main' = "running"
    /\ queue' = [f \in Files |-> f]
    /\ NoWorkers
    /\ cache' = <<>> /\ stats' = NoStats
    /\ spans' = [f \in Files |-> <<>>]
    /\ charPos' = [f \in Files |-> {}]
    /\ issued' = <<>>
    /\ flog' = [f \in Files |-> NoLog]
    /\ UNCHANGED <<maskVars, strVars, qaVars, gate, glossary, src, dst, dirs, answers>>

\* The runs are made with one worker thread (--workers 1).
InitResume == InitPool(1)

NextResume ==
    \/ NextRun
    \/ Kill
    \/ Restart

SpecResume == InitResume /\ [][NextResume]_vars

\* ===================================================== claims: the run

\* The spans of all files whose content is s and whose backend call failed.
FailedCalls(s) ==
    UNION {{<<f, k>> : k \in {j \in 1..Len(spans[f]) :
                                 spans[f][j].inner = s /\ spans[f][j].how = "failed"}} :
           f \in Files}

\* C4 (as claimed). One backend call per string across the run: a string is
\* sent to the backend again only after a call for it has failed, under
\* every interleaving of the workers.
C4_OneBackendCallPerString ==
    \A s \in DOMAIN issued : issued[s] <= 1 + Cardinality(FailedCalls(s))

\* The characters that stand directly before, and after, the content of a
\* span of this kind.
OpenerEnd(kind) == IF kind = "string" THEN DQ ELSE IF kind = "line" THEN SL ELSE ST
CloserOf(kind) ==
    IF kind = "string" THEN <<DQ>> ELSE IF kind = "line" THEN <<NL>> ELSE <<ST, SL>>

\* Sum over the spans of the growth of the content.
RECURSIVE Growth(_)
Growth(ss) ==
    IF ss = <<>> THEN 0
    ELSE Len(Head(ss).emitted) - Len(Head(ss).inner) + Growth(Tail(ss))

\* C9 (as claimed). A file with a failed span translation is counted as
\* translated and never as an error file.
C9_FailedSpanFileTranslated ==
    \A f \in Files :
        (flog[f].spanFailed /\ Done(f)) =>
            /\ flog[f].outcome = "translated"
            /\ Count(flog[f].incs, "error_files") = 0

\* C9 (amended). Span-level containment: when translate_string raises for a
\* span, translate puts the span's original content between its original
\* delimiters, goes on to the end of the text and returns; the failure adds
\* nothing to error_files, and the file is counted as translated unless the
\* write of the destination fails afterwards.
C9_SpanContainment ==
    \A f \in Files :
        flog[f].spanFailed =>
            /\ \E k \in 1..Len(spans[f]) : spans[f][k].how = "failed"
            /\ \A k \in 1..Len(spans[f]) : \A w \in Workers :
                  LET rec == spans[f][k]
                      last == rec.outPos + Len(rec.inner) - 1
                  IN  rec.how = "failed" =>
                      /\ rec.emitted = rec.inner
                      /\ (cur[w] = f /\ pc[w] = "scanned") =>
                          /\ rec.inner = SubSeq(text[w], rec.from, rec.from + Len(rec.inner) - 1)
                          /\ SubSeq(result[w], rec.outPos, last) = rec.inner
                          /\ result[w][rec.outPos - 1] = OpenerEnd(rec.kind)
                          /\ text[w][rec.from - 1] = OpenerEnd(rec.kind)
                          /\ IF rec.closed = "delim"
                             THEN SubSeq(result[w], last + 1, last + Len(CloserOf(rec.kind)))
                                      = CloserOf(rec.kind)
                             ELSE last = Len(result[w])
                          /\ i[w] > Len(text[w])
                          /\ Len(result[w]) = Len(text[w]) + Growth(spans[f])
            /\ flog[f].outcome \in {"none", "translated", "error"}
            /\ flog[f].failure \in {"none", "write"}
            /\ flog[f].failure = "none" =>
                  /\ Count(flog[f].incs, "error_files") = 0
                  /\ flog[f].errMsgs = 0
            /\ (Done(f) /\ flog[f].failure = "none") =>
                  /\ flog[f].outcome = "translated"
                  /\ Count(flog[f].incs, "translated_files") = 1
                  /\ dst[f].exists

\* C9 witness: the file's first span failed, its second span was translated
\* by the backend into another text, and the file was written and counted.
C9_Witness ==
    \E f \in Files :
        /\ Len(spans[f]) = 2
        /\ spans[f][1].how = "failed"
        /\ spans[f][2].how = "translated" /\ spans[f][2].emitted # spans[f][2].inner
        /\ Done(f) /\ flog[f].outcome = "translated"
        /\ Count(flog[f].incs, "translated_files") = 1
        /\ dst[f].text = <<DQ, "a", DQ, SL, SL, "b">>

\* C10 (as claimed). Per-file error isolation: a failure while a file is
\* processed never leaves route_and_process_file: no error reaches the
\* dispatcher, no file is left unprocessed, and the file is given exactly
\* one error_files increment and one message.
C10_ErrorIsolation ==
    /\ main # "raised"
    /\ \A f \in Files :
          /\ flog[f].outcome \notin {"raised", "cancelled"}
          /\ (Done(f) /\ flog[f].failure # "none") =>
                /\ flog[f].outcome = "error"
                /\ Count(flog[f].incs, "error_files") = 1
                /\ flog[f].errMsgs = 1

\* The sum over the files 1..n of the amounts added to a Stats field.
RECURSIVE Added(_, _)
Added(field, n) ==
    IF n = 0 THEN 0 ELSE Count(flog[n].incs, field) + Added(field, n - 1)

\* C11 (as claimed). Stats under concurrent increment: when the run has
\* ended with every file processed, total_files is the number of files, the
\* three outcome counters add up to it, and every counter holds the sum of
\* what the `+=` statements of the run added to it.
C11_StatsExact ==
    main = "done" =>
        /\ stats.total_files = Cardinality(Files)
        /\ stats.translated_files + stats.skipped_files + stats.error_files
               = stats.total_files
        /\ \A field \in {"total_files", "translated_files", "skipped_files",
                         "error_files", "total_words", "llm_time_seconds"} :
              stats[field] = Added(field, Cardinality(Files))

\* C12 (as claimed). Crash-atomic output, in its consequence: whatever
\* ended the earlier run, a file that the resume policy skips has a
\* destination that a completed write left there, never a truncated one.
C12_NoTruncatedResume ==
    \A f \in Files : flog[f].outcome = "resume" => dst[f].whole

\* What a destination holds, without the history.
Bytes(d) == [exists |-> d.exists, text |-> d.text]

\* C13 (as claimed). Resume correctness: in a second run, made after the
\* first run went through all files and left every destination complete, no
\* backend call is made and every destination stays as it was when the run
\* started.
C13_SecondRunIdentical ==
    (run = 2 /\ ended = "done" /\ \A f \in Files : prev[f].exists /\ prev[f].whole) =>
        /\ issued = <<>>
        /\ \A f \in Files : Bytes(dst[f]) = Bytes(prev[f])

\* C14 (as claimed). Resume check first: a file whose destination exists
\* when the run starts is resume-skipped, with or without a translator for
\* its extension: it has no other outcome and its destination is not
\* written.
C14_ResumeFirst ==
    \A f \in Files :
        prev[f].exists =>
            /\ flog[f].outcome \in {"none", "resume", "cancelled"}
            /\ Bytes(dst[f]) = Bytes(prev[f])

\* A worker has been given a file.
Processing == \E w \in Workers : cur[w] # 0

\* C15 (as claimed). QA gate ordering: no file is given to a worker before
\* the QA gate was evaluated, and none at all when it failed.
C15_GateBeforeFiles ==
    (Processing \/ \E f \in Files : flog[f].outcome # "none") => gate = "pass"

\* main has left the pool and no worker thread is inside a file.
RunOver == main \in {"done", "raised"} /\ \A w \in Workers : pc[w] = "idle"

\* C20 (as claimed). When the run is over, every file found under the input
\* root was handed to route_and_process_file and ended as translated, as
\* skipped or copied, or as an error.
C20_EveryFileOneOutcome ==
    RunOver =>
        \A f \in Files :
            flog[f].outcome \in {"translated", "resume", "copied", "copied_empty", "error"}

\* ================= the run under fair scheduling

\* One worker thread (--workers 1); every step that can be taken is taken
\* in the end: threads are scheduled, and a backend call returns or fails.
InitLive == InitPool(1)

SpecLive == InitLive /\ [][NextRun]_vars /\ WF_vars(NextRun)

\* C21 (as claimed). A run that has started on its files handles every one
\* of them in the end and reaches the summary, whatever failed on the way.
C21_RunCompletes ==
    <>(/\ main = "done"
       /\ \A f \in Files : flog[f].outcome \notin {"none", "raised", "cancelled"})

\* The spans recorded for file f.
FileSpans(f) == {spans[f][q] : q \in 1..Len(spans[f])}

\* C29 (as claimed). Output does not depend on which worker seeds the
\* cache: wherever the same source string was translated, in one file or in
\* two, by one worker or by two, the same translation stands in its place.
C29_SameTranslationEverywhere ==
    \A f, g \in Files :
        \A a \in FileSpans(f), b \in FileSpans(g) :
            (/\ a.inner = b.inner
             /\ a.how \in {"translated", "cached"}
             /\ b.how \in {"translated", "cached"})
            => a.emitted = b.emitted

\* ================= the glossary file written by two workers

\* The run of two workers on two files, the first of them a .java file with
\* no destination yet, where a raw write of a glossary line may take only
\* part of it.
InitGloss ==
    /\ InitRun
    /\ src[1] = [text |-> <<DQ, "a", DQ, SL, SL, "a">>, ext |-> ".java"]
    /\ ~dst[1].exists

NextGloss ==
    \/ NextRun
    \/ \E w \in Workers : CacheStoreSplit(w)
    \/ \E w \in Workers : GlossaryFlush(w)

SpecGloss == InitGloss /\ [][NextGloss]_vars

\* The lines of a file's text, each with its line break; what follows the
\* last line break is a line too.
RECURSIVE LinesFrom(_, _)
LinesFrom(t, line) ==
    IF t = <<>> THEN (IF line = <<>> THEN {} ELSE {line})
    ELSE IF Head(t) = NL THEN {Append(line, NL)} \cup LinesFrom(Tail(t), <<>>)
    ELSE LinesFrom(Tail(t), Append(line, Head(t)))

GlossaryText == Concat(glossary)

\* The pairs that translate_string calls of this run have logged or may log.
TranslatedPairs ==
    {GlossaryLine(sp.inner, sp.emitted) :
        sp \in {x \in UNION {FileSpans(f) : f \in Files} : x.how = "translated"}}

\* C31 (as claimed). Glossary writers are serialized: whenever no append is
\* under way, every line of the glossary file is one complete
\* original<TAB>translation pair of one translate_string call; the text of
\* two appends is never mixed within a line.
C31_GlossaryLinesWhole ==
    (\A w \in Workers : pc[w] # "gloss")
        => LinesFrom(GlossaryText, <<>>) \subseteq TranslatedPairs

\* ================= a glossary append that fails

\* What translate_string makes of the content r it got for the string s.
Translation(s, r) ==
    IF variant = "root"
    THEN UnmaskPlaceholders(StripQuotes(r), MaskPlaceholders(s).mapping)
    ELSE StripQuotes(r)

\* C32. A glossary write failure never breaks translation: a call whose
\* backend answered with a content returns the translated text, raises
\* nothing to its caller and leaves the text in the cache under the string,
\* also when the pair could not be appended to the glossary file.
C32_GlossaryFailureHarmless ==
    \A j \in 1..Len(slog) :
        /\ slog[j].body = "content" => slog[j].how = "translated"
        /\ (slog[j].how = "translated" /\ ~slog[j].logged) =>
              /\ slog[j].ret = Translation(slog[j].s, slog[j].resp)
              /\ slog[j].s \in DOMAIN scache
              /\ scache[slog[j].s] = slog[j].ret

\* An append failed, the call returned a translation that differs from the
\* string, and a later call was answered from the cache.
C32_Witness ==
    \E j, k \in 1..Len(slog) :
        /\ j < k
        /\ slog[j].how = "translated" /\ slog[j].body = "content" /\ ~slog[j].logged
        /\ slog[j].ret # slog[j].s
        /\ sglossary = <<>>
        /\ slog[k].s = slog[j].s /\ slog[k].how = "cached" /\ slog[k].ret = slog[j].ret

\* ================= the destination directory

\* The worker is about to copy to, or to write, the destination of its file.
AboutToWrite(w) == pc[w] \in {"copy", "wempty", "scanned"}

\* A copy or a write to the destination of f was attempted in this run.
WriteAttempted(f) ==
    \/ flog[f].outcome \in {"copied", "copied_empty", "translated"}
    \/ flog[f].failure \in {"copy", "write_empty", "write"}

\* C33. Directory before write: in every execution of
\* route_and_process_file the parent directory of the destination has been
\* created (and is left as it is when it was there already) before a copy
\* or a write to the destination is attempted, and it is there whenever the
\* destination changes.
C33_DirectoryBeforeWrite ==
    /\ [](\A w \in Workers : AboutToWrite(w) => cur[w] \in dirs)
    /\ [](\A f \in Files : WriteAttempted(f) => f \in dirs)
    /\ [][/\ dirs \subseteq dirs'
          /\ \A f \in Files : dst'[f] # dst[f] => f \in dirs]_vars

\* A file whose destination was not there when the run began has been
\* translated and written, into a directory that is there now.
C33_Witness ==
    \E f \in Files :
        /\ ~prev[f].exists /\ run = 1
        /\ flog[f].outcome = "translated"
        /\ dst[f].exists /\ f \in dirs

\* ================= the counters after calls run one at a time

\* C34 (as claimed). Counter invariant, one worker: between two calls of
\* route_and_process_file total_files is the sum of translated_files,
\* skipped_files and error_files, and errors has error_files entries; each
\* call that is over has added one to total_files and one to exactly one of
\* the three outcome counters; translated_files is added to only after the
\* destination was written whole.
C34_CounterInvariant ==
    /\ (\A w \in Workers : pc[w] = "idle") =>
          /\ stats.total_files
                = stats.translated_files + stats.skipped_files + stats.error_files
          /\ Len(stats.errors) = stats.error_files
    /\ \A f \in Files :
          /\ Done(f) =>
                /\ Count(flog[f].incs, "total_files") = 1
                /\ Count(flog[f].incs, "translated_files")
                      + Count(flog[f].incs, "skipped_files")
                      + Count(flog[f].incs, "error_files") = 1
          /\ Count(flog[f].incs, "translated_files") > 0 =>
                /\ flog[f].outcome = "translated"
                /\ dst[f].exists /\ dst[f].whole

\* ================= a backend that echoes

\* The text translate_string asks the backend to translate for the string s.
Request(s) == IF variant = "root" THEN MaskPlaceholders(s).masked ELSE s

\* Every answer of the backend so far was the text it was asked to translate.
EchoBackend ==
    \A j \in 1..Len(slog) :
        slog[j].how = "translated" =>
            slog[j].body = "content" /\ slog[j].resp = Request(slog[j].s)

\* C35 (as claimed). Echo round trip: with a backend that returns the text
\* it was asked to translate unchanged, translate_string(s) is s for every
\* string s, with leading or trailing white space or wrapped in quotes as
\* well, and translate_buffer puts s back in the place of the span.
C35_EchoRoundTrip ==
    EchoBackend =>
        \A j \in 1..Len(slog) :
            slog[j].how # "raised" =>
                slog[j].ret = slog[j].s /\ TranslateBuffer(slog[j]) = slog[j].s
====
